---- MODULE Spec2Model ----
(***************************************************************************)
(* A model of bevy_api_gen, the binding-descriptor generator of            *)
(* bevy_mod_scripting: generate_api_for_crates / generate_macros           *)
(* (src/bevy_api_gen/src/lib.rs) and WrappedItem::write_derive_flags_body   *)
(* (src/bevy_api_gen/src/wrapper.rs).                                       *)
(*                                                                         *)
(* The output file is a sequence of text fragments: write!(out, ..) appends *)
(* its fragments, writeln!(out, ..) appends its fragments and then "\n".    *)
(* Concatenating the fragments gives the bytes of the file.                 *)
(*                                                                         *)
(* The type graphs are well-formed rustdoc documents (every id resolves,    *)
(* every struct has a path): a malformed graph aborts while it is read.     *)
(***************************************************************************)
EXTENDS Integers, Sequences, FiniteSets, TLC

(***************************************************************************)
(* Generic helpers.                                                        *)
(***************************************************************************)
Range(s) == {s[i] : i \in DOMAIN s}

\* Some(x) / None of an Option<T>
Some(x) == <<x>>
None == <<>>
IsSome(o) == Len(o) = 1

RECURSIVE Concat(_)
\* the concatenation of a sequence of sequences
Concat(ss) == IF ss = <<>> THEN <<>> ELSE Head(ss) \o Concat(Tail(ss))

RECURSIVE Join(_, _)
\* Vec<String>::join(sep), as fragments
Join(strs, sep) ==
    IF strs = <<>> THEN <<>>
    ELSE IF Len(strs) = 1 THEN <<strs[1]>>
    ELSE <<strs[1], sep>> \o Join(Tail(strs), sep)

RECURSIVE JoinStr(_, _)
\* Vec<String>::join(sep), as one string
JoinStr(strs, sep) ==
    IF strs = <<>> THEN ""
    ELSE IF Len(strs) = 1 THEN strs[1]
    ELSE strs[1] \o sep \o JoinStr(Tail(strs), sep)

RECURSIVE SplitFragment(_)
\* a fragment cut at each of its newline characters: the pieces between
\* them, with a "\n" fragment for each newline
SplitFragment(s) ==
    IF s = "\n" THEN <<s>>
    ELSE IF \A i \in 1 .. Len(s) : SubSeq(s, i, i) # "\n" THEN <<s>>
    ELSE LET i == CHOOSE j \in 1 .. Len(s) :
                     /\ SubSeq(s, j, j) = "\n"
                     /\ \A l \in 1 .. j - 1 : SubSeq(s, l, l) # "\n"
         IN ((IF i > 1 THEN <<SubSeq(s, 1, i - 1)>> ELSE <<>>) \o <<"\n">>)
            \o (IF i < Len(s) THEN SplitFragment(SubSeq(s, i + 1, Len(s))) ELSE <<>>)

\* a line that a newline ends, without the carriage return that directly
\* precedes the newline, if any
StripCR(line) ==
    LET full == {i \in DOMAIN line : line[i] # ""}
    IN IF full = {} THEN line
       ELSE LET k == CHOOSE i \in full : \A j \in full : j <= i
                n == Len(line[k])
            IN IF SubSeq(line[k], n, n) # "\r" THEN line
               ELSE IF n = 1
               THEN SubSeq(line, 1, k - 1) \o SubSeq(line, k + 1, Len(line))
               ELSE [line EXCEPT ![k] = SubSeq(line[k], 1, n - 1)]

RECURSIVE CutLines(_)
\* the lines of a fragment sequence whose newlines are all "\n" fragments;
\* there is no further line once no text is left
CutLines(toks) ==
    IF \A i \in DOMAIN toks : toks[i] = "" THEN <<>>
    ELSE LET nl == {i \in DOMAIN toks : toks[i] = "\n"}
         IN IF nl = {} THEN <<toks>>
            ELSE LET i == CHOOSE j \in nl : \A l \in nl : j <= l
                 IN <<StripCR(SubSeq(toks, 1, i - 1))>>
                    \o CutLines(SubSeq(toks, i + 1, Len(toks)))

\* str::lines() on a fragment sequence: a line ends at each newline, a
\* carriage return directly before the newline is not part of the line
\* (one at the end of an unterminated last line is), a trailing newline
\* ends the last line and starts no empty one, and an empty text has no line
SplitLines(toks) == CutLines(Concat([i \in DOMAIN toks |-> SplitFragment(toks[i])]))

\* all orderings of a finite set, as sequences
Orderings(S) ==
    {s \in [1 .. Cardinality(S) -> S] : \A i, j \in DOMAIN s : i # j => s[i] # s[j]}

\* write!(out, "{}", s) and writeln!(out, "{}", s)
Write(out, s) == Append(out, s)
Writeln(out, s) == out \o <<s, "\n">>

(***************************************************************************)
(* Type expressions of the type graph (rustdoc_types::Type).               *)
(***************************************************************************)
TGeneric(n) == [k |-> "Generic", name |-> n]
TPrimitive(n) == [k |-> "Primitive", name |-> n]
TResolvedPath(n) == [k |-> "ResolvedPath", name |-> n]
TBorrowedRef(m, t) == [k |-> "BorrowedRef", mutable |-> m, type |-> t]
TTuple == [k |-> "Tuple"]

(***************************************************************************)
(* arg_validator: ArgType, ArgWrapperType, Arg.                            *)
(***************************************************************************)
SelfType == [tag |-> "SelfType"]
Named(n) == [tag |-> "Named", name |-> n]
Generic(n) == [tag |-> "Generic", name |-> n]
Ref(m, a) == [tag |-> "Ref", mutable |-> m, inner |-> a]

Ok(v) == [ok |-> TRUE, val |-> v]
Err(e) == [ok |-> FALSE, err |-> e]

RECURSIVE TryIntoArgType(_)
\* ArgType::try_from(&Type): the classification of a type expression
TryIntoArgType(tp) ==
    CASE tp.k = "Generic" /\ tp.name = "Self" -> Ok(SelfType)
      [] tp.k = "BorrowedRef" ->
            LET r == TryIntoArgType(tp.type)
            IN IF r.ok THEN Ok(Ref(tp.mutable, r.val)) ELSE r
      [] tp.k = "Primitive" -> Ok(Named(tp.name))
      [] tp.k = "Generic" /\ tp.name # "Self" -> Ok(Generic(tp.name))
      [] tp.k = "ResolvedPath" -> Ok(Named(tp.name))
      [] OTHER -> Err("Not a simple type")

RECURSIVE is_self(_)
is_self(a) ==
    CASE a.tag = "SelfType" -> TRUE
      [] a.tag = "Ref" -> is_self(a.inner)
      [] OTHER -> FALSE

RECURSIVE base_ident(_)
\* the name the type rests on; None for the declaring type itself
base_ident(a) ==
    CASE a.tag = "SelfType" -> None
      [] a.tag = "Ref" -> base_ident(a.inner)
      [] OTHER -> Some(a.name)

RECURSIVE ArgTypeStr(_)
\* Display of ArgType
ArgTypeStr(a) ==
    CASE a.tag = "SelfType" -> "self"
      [] a.tag = "Ref" -> (IF a.mutable THEN "&mut " ELSE "&") \o ArgTypeStr(a.inner)
      [] OTHER -> a.name

\* Display of Arg::new(arg_type, wrapper)
ArgStr(a, w) ==
    CASE w = "Raw" -> "Raw(" \o ArgTypeStr(a) \o ")"
      [] w = "Wrapped" -> "Wrapped(" \o ArgTypeStr(a) \o ")"
      [] OTHER -> ArgTypeStr(a)

(***************************************************************************)
(* config: Config and Newtype.  config.types is an IndexMap: a sequence of  *)
(* Newtype with distinct keys (type_), in insertion order.                  *)
(***************************************************************************)
TypesKeys(types) == {types[i].type_ : i \in DOMAIN types}
contains_key(types, k) == k \in TypesKeys(types)
get_index_of(types, k) == CHOOSE i \in DOMAIN types : types[i].type_ = k
TypesGet(types, k) == types[get_index_of(types, k)]

\* IndexMap::insert: a new key is appended, an existing key keeps its place and
\* takes the new value
IndexMapInsert(types, t) ==
    IF contains_key(types, t.type_)
    THEN [types EXCEPT ![get_index_of(types, t.type_)] = t]
    ELSE Append(types, t)

\* ArgWrapperType::with_config: the wrapper strategy of a classified type, None
\* when there is none
with_config(wrapped_type, a, config) ==
    LET base == IF IsSome(base_ident(a)) THEN base_ident(a)[1] ELSE wrapped_type
    IN IF is_self(a) THEN Some("None")
       ELSE IF base \in Range(config.primitives) THEN Some("Raw")
       ELSE IF contains_key(config.types, base) THEN Some("Wrapped")
       ELSE None

\* Newtype::matches_result: the item is a record or a tagged union
matches_result(newtype, item, source) == item.kind \in {"Struct", "Enum"}

(***************************************************************************)
(* cratepath: the import path of an item.                                  *)
(***************************************************************************)
get_path(id, source) ==
    IF id \in DOMAIN source.paths THEN Some(source.paths[id]) ELSE None

path_to_import(path, source) == path

(***************************************************************************)
(* wrapper: WrappedItem.  impl_items is an IndexMap from member name to    *)
(* the (impl, member) pairs of that name: a sequence of                    *)
(* [key, items] in insertion order of the keys.                            *)
(***************************************************************************)
WRAPPER_PREFIX == "Lua"

ImplItemsGet(impl_items, k) ==
    LET hit == {i \in DOMAIN impl_items : impl_items[i].key = k}
    IN IF hit = {} THEN None ELSE Some(impl_items[CHOOSE i \in hit : TRUE].items)

\* impl_items.entry(name).or_default().push((impl, item))
ImplItemsPush(impl_items, name, pair) ==
    LET hit == {i \in DOMAIN impl_items : impl_items[i].key = name}
    IN IF hit = {} THEN Append(impl_items, [key |-> name, items |-> <<pair>>])
       ELSE LET i == CHOOSE j \in hit : TRUE
            IN [impl_items EXCEPT ![i].items = Append(@, pair)]

\* self.impl_items.iter().flat_map(|(_, items)| items.iter())
FlatItems(impl_items) == Concat([i \in DOMAIN impl_items |-> impl_items[i].items])

\* write_method_docstring: the member's doc comment, line by line
write_method_docstring(v, out) ==
    out \o Concat([i \in DOMAIN v.docs |-> <<"/// ", v.docs[i], "\n">>])

\* the closure over decl.inputs (wrapper.rs 198-229) for the input at 0-based
\* position i of n: acc is [inner, errors, is_global_method]
MethodInput(acc, i, n, declaration_name, tp, wrapped_type, config) ==
    LET arg_type == TryIntoArgType(tp) IN
    IF arg_type.ok
    THEN LET wrapper_type == with_config(wrapped_type, arg_type.val, config) IN
         IF IsSome(wrapper_type)
         THEN LET inner1 == Write(acc.inner, ArgStr(arg_type.val, wrapper_type[1])) IN
              IF declaration_name # "self" /\ i + 1 # n
              THEN [acc EXCEPT !.inner = Write(inner1, ",")]
              ELSE IF declaration_name = "self"
              THEN [acc EXCEPT !.inner = Write(inner1, ":"), !.is_global_method = FALSE]
              ELSE [acc EXCEPT !.inner = inner1]
         ELSE [acc EXCEPT
                 !.inner = Write(@, "<invalid: " \o ArgTypeStr(arg_type.val) \o ">"),
                 !.errors = Append(@, "Unsupported argument " \o ArgTypeStr(arg_type.val)
                                       \o ", not a wrapped type or primitive")]
    ELSE [acc EXCEPT
            !.errors = Append(@, "Unsupported argument, Not a simple type: "
                                  \o arg_type.err \o ".")]

RECURSIVE MethodInputs(_, _, _, _, _)
\* decl.inputs.iter().enumerate().try_for_each(..), from position i on
MethodInputs(acc, i, inputs, wrapped_type, config) ==
    IF i >= Len(inputs) THEN acc
    ELSE MethodInputs(
            MethodInput(acc, i, Len(inputs), inputs[i + 1][1], inputs[i + 1][2],
                        wrapped_type, config),
            i + 1, inputs, wrapped_type, config)

\* the declared return type rendered without the test for a reference
MethodOutput_ReferencesWrapped(acc, output, wrapped_type, config) ==
    IF ~IsSome(output) THEN acc
    ELSE LET arg_type == TryIntoArgType(output[1]) IN
         IF arg_type.ok
         THEN LET wrapper_type == with_config(wrapped_type, arg_type.val, config) IN
              IF IsSome(wrapper_type)
              THEN [acc EXCEPT
                      !.inner = @ \o <<" -> ", ArgStr(arg_type.val, wrapper_type[1])>>]
              ELSE [acc EXCEPT
                      !.errors = Append(@,
                          "Unsupported argument, not a wrapped type or primitive "
                          \o ArgTypeStr(arg_type.val)),
                      !.inner = Write(@, "<invalid: " \o ArgTypeStr(arg_type.val) \o ">")]
         ELSE [acc EXCEPT
                 !.errors = Append(@, "Unsupported argument, not a simple type: "
                                       \o arg_type.err)]

\* the declared return type (wrapper.rs 237-262): acc is [inner, errors, returned];
\* returned is the early return of the closure on a reference return type
MethodOutput(acc, output, wrapped_type, config) ==
    IF ~IsSome(output) THEN acc
    ELSE LET arg_type == TryIntoArgType(output[1]) IN
         IF arg_type.ok
         THEN IF arg_type.val.tag = "Ref"
              THEN [acc EXCEPT
                      !.errors = Append(@, "references are not supported as return types"),
                      !.returned = TRUE]
              ELSE LET wrapper_type == with_config(wrapped_type, arg_type.val, config) IN
                   IF IsSome(wrapper_type)
                   THEN [acc EXCEPT
                           !.inner = @ \o <<" -> ", ArgStr(arg_type.val, wrapper_type[1])>>]
                   ELSE [acc EXCEPT
                           !.errors = Append(@,
                               "Unsupported argument, not a wrapped type or primitive "
                               \o ArgTypeStr(arg_type.val)),
                           !.inner = Write(@, "<invalid: " \o ArgTypeStr(arg_type.val) \o ">")]
         ELSE [acc EXCEPT
                 !.errors = Append(@, "Unsupported argument, not a simple type: "
                                       \o arg_type.err)]

\* no member dropped, whatever interface it comes from
TraitNotAccepted_Never(impl_, newtype) == FALSE

\* whether the member of an implementation of a named interface is dropped
\* (wrapper.rs 166-179): the interface is not among config.traits
TraitNotAccepted(impl_, newtype) ==
    /\ IsSome(impl_.trait_)
    /\ ~\E i \in DOMAIN newtype.traits : newtype.traits[i].name = impl_.trait_[1]

\* has_global_methods after one member (wrapper.rs 231-233)
GlobalAfter(has_global_methods, is_global_method) ==
    has_global_methods \/ is_global_method

\* the member written as included whatever reasons were accumulated
MethodEmit_IgnoresErrors(st, name, inner, errors, print_errors) ==
    [st EXCEPT
       !.used_method_identifiers = @ \cup {name},
       !.out = (@ \o Write(inner, ",")) \o <<"\n">>]

\* what the member's exclusion decision writes (wrapper.rs 268-284): st is
\* [out, has_global_methods, used_method_identifiers]
MethodEmit(st, name, inner, errors, print_errors) ==
    IF errors # <<>>
    THEN IF print_errors
         THEN LET lines == SplitLines(inner)
              IN [st EXCEPT !.out =
                    (@ \o <<"// Exclusion reason: ">> \o Join(errors, ",") \o <<"\n">>)
                    \o Concat([i \in DOMAIN lines |-> <<"// ">> \o lines[i] \o <<"\n">>])
                    \o <<"\n">>]
         ELSE st
    ELSE [st EXCEPT
            !.used_method_identifiers = @ \cup {name},
            !.out = (@ \o Write(inner, ",")) \o <<"\n">>]

\* the end of the closure, once inputs and output are rendered (wrapper.rs 264-286):
\* a is the state after the inputs, b the state after the output
MethodDecide(st, v, a, b, args) ==
    IF b.returned THEN st
    ELSE MethodEmit(st, v.name, b.inner,
                    IF v.generics # 0 THEN Append(b.errors, "Generics on the method")
                    ELSE b.errors,
                    args.print_errors)

\* the closure after the inputs (wrapper.rs 231-262)
MethodAfterInputs(st, v, a, w, config, args) ==
    MethodDecide([st EXCEPT !.has_global_methods = GlobalAfter(@, a.is_global_method)],
                 v, a,
                 MethodOutput([inner |-> Write(a.inner, ")"), errors |-> a.errors,
                               returned |-> FALSE],
                              v.output, w.wrapped_type, config),
                 args)

\* the closure over the members of the type (wrapper.rs 164-287) for one
\* (impl, member) pair
MethodMember(st, impl_, v, w, config, args) ==
    IF TraitNotAccepted(impl_, w.config) THEN st
    ELSE IF v.kind # "Function" THEN st
    ELSE MethodAfterInputs(
            st, v,
            MethodInputs([inner |-> write_method_docstring(v, <<>>) \o <<v.name, "(">>,
                          errors |-> <<>>, is_global_method |-> TRUE],
                         0, v.inputs, w.wrapped_type, config),
            w, config, args)

RECURSIVE MethodMembers(_, _, _, _, _)
MethodMembers(st, pairs, w, config, args) ==
    IF pairs = <<>> THEN st
    ELSE MethodMembers(MethodMember(st, pairs[1][1], pairs[1][2], w, config, args),
                       Tail(pairs), w, config, args)

\* the set of used method names a call starts with, kept from the blocks
\* written before: every name that opens a parenthesis there
NewUsedMethodIdentifiers_Kept(out) ==
    {out[i] : i \in {j \in 1 .. Len(out) - 1 : out[j + 1] = "("}}
    \ {"Methods", "+ Fields", "+ BinOps", "+ UnaryOps"}

\* the set of used method names a call starts with (wrapper.rs 156): a new
\* empty set, whatever the file holds
NewUsedMethodIdentifiers(out) == {}

\* the Methods block (wrapper.rs 156-290)
WriteMethods(w, config, out, args) ==
    LET st == MethodMembers(
                [out |-> Write(Writeln(out, "Methods"), "("),
                 has_global_methods |-> FALSE,
                 used_method_identifiers |-> NewUsedMethodIdentifiers(out)],
                FlatItems(w.impl_items), w, config, args)
    IN [st EXCEPT !.out = Write(@, ")")]

\* the wrapper of a field's type (wrapper.rs 312-333): without a strategy the
\* field falls back to ArgWrapperType::None
FieldWrapper(arg_type, wrapped_type, config) ==
    LET base == IF IsSome(base_ident(arg_type)) THEN base_ident(arg_type)[1]
                ELSE wrapped_type
    IN IF is_self(arg_type) THEN "None"
       ELSE IF base \in Range(config.primitives) THEN "Raw"
       ELSE IF contains_key(config.types, base) THEN "Wrapped"
       ELSE "None"

\* the filter without the test for the ignore annotation
FieldKept_IgnoreNeverChecked(field_, wrapped_type, config) ==
    TryIntoArgType(field_.type).ok

\* whether the filter_map over the fields keeps the field (wrapper.rs 311, 340-343)
FieldKept(field_, wrapped_type, config) ==
    LET arg_type == TryIntoArgType(field_.type) IN
    /\ arg_type.ok
    /\ ~(/\ FieldWrapper(arg_type.val, wrapped_type, config) = "None"
         /\ \E i \in DOMAIN field_.attrs : field_.attrs[i] = "#[reflect(ignore)]")

\* the type written for a kept field (wrapper.rs 335-346)
FieldType(field_, wrapped_type, config) ==
    LET arg_type == TryIntoArgType(field_.type).val
        wrapper == FieldWrapper(arg_type, wrapped_type, config)
    IN IF wrapper = "None" THEN "Raw(ReflectedValue)" ELSE ArgStr(arg_type, wrapper)

\* the annotation left out whatever the methods included
FieldRename_Never(out, name, used_method_identifiers) == out

\* the rename annotation of a field (wrapper.rs 354-357)
FieldRename(out, name, used_method_identifiers) ==
    IF name \in used_method_identifiers
    THEN out \o <<"#[rename(\"_", name, "\")]", "\n">>
    ELSE out

\* one field of a plain record (wrapper.rs 304-365)
WriteField(out, field_, w, config, used_method_identifiers) ==
    IF field_.kind # "StructField" THEN out
    ELSE IF ~FieldKept(field_, w.wrapped_type, config) THEN out
    ELSE LET docs == Concat([i \in DOMAIN field_.docs |-> <<"/// ", field_.docs[i], "\n">>])
         IN FieldRename(out \o docs, field_.name, used_method_identifiers)
            \o <<field_.name, ": ", FieldType(field_, w.wrapped_type, config), ",", "\n">>

RECURSIVE WriteFieldSeq(_, _, _, _, _)
WriteFieldSeq(out, fields, w, config, used_method_identifiers) ==
    IF fields = <<>> THEN out
    ELSE WriteFieldSeq(WriteField(out, Head(fields), w, config, used_method_identifiers),
                       Tail(fields), w, config, used_method_identifiers)

\* the Fields block (wrapper.rs 292-369); index is the item index of the source
WriteFields(w, index, config, out, used_method_identifiers) ==
    LET out1 == Write(Writeln(out, "+ Fields"), "(")
        out2 == IF w.item.kind = "Struct" /\ w.item.plain
                THEN WriteFieldSeq(out1, [i \in DOMAIN w.item.fields |-> index[w.item.fields[i]]],
                                   w, config, used_method_identifiers)
                ELSE out1
    IN Write(out2, ")")

BINARY_OPS ==
    <<<<"add", "Add">>, <<"sub", "Sub">>, <<"div", "Div">>, <<"mul", "Mul">>, <<"rem", "Rem">>>>

UNARY_OPS == <<<<"neg", "Neg">>>>

\* every implementation considered, whatever type it is for
BinOpAccepted_Any(impl_, wrapped_type, config) == TRUE

\* the filter on the type the operator is implemented for (wrapper.rs 384-392)
BinOpAccepted(impl_, wrapped_type, config) ==
    LET self_type == TryIntoArgType(impl_.for_) IN
    /\ self_type.ok
    /\ LET base == IF IsSome(base_ident(self_type.val)) THEN base_ident(self_type.val)[1]
                   ELSE wrapped_type
           is_self_type_the_wrapper == base = wrapped_type /\ contains_key(config.types, base)
           is_primitive == base \in Range(config.primitives)
       IN is_self_type_the_wrapper \/ is_primitive

RECURSIVE BinOpOperands(_, _, _, _)
\* the operands of an operator method (wrapper.rs 396-413): [res, strs], res
\* "ok", "err" (the first operand that fails classification ends the collect)
\* or "panic" (the unwrap of a missing wrapper strategy)
BinOpOperands(acc, inputs, wrapped_type, config) ==
    IF inputs = <<>> THEN acc
    ELSE LET arg_type == TryIntoArgType(Head(inputs)[2]) IN
         IF ~arg_type.ok THEN [acc EXCEPT !.res = "err"]
         ELSE LET wrapper_type == with_config(wrapped_type, arg_type.val, config) IN
              IF ~IsSome(wrapper_type) THEN [acc EXCEPT !.res = "panic"]
              ELSE BinOpOperands(
                      [acc EXCEPT !.strs = Append(@, ArgStr(arg_type.val, wrapper_type[1]))],
                      Tail(inputs), wrapped_type, config)

\* the "Output" associated type of the implementation (wrapper.rs 418-432):
\* [res, type], res "ok", "err" (no such item) or "panic" (no default type)
BinOpOutType(impl_, index) ==
    LET hit == {i \in DOMAIN impl_.items :
                   /\ index[impl_.items[i]].kind = "AssocType"
                   /\ index[impl_.items[i]].name = "Output"}
    IN IF hit = {} THEN [res |-> "err", type |-> None]
       ELSE LET first == index[impl_.items[CHOOSE i \in hit : \A j \in hit : i <= j]]
            IN IF IsSome(first.default) THEN [res |-> "ok", type |-> first.default]
               ELSE [res |-> "panic", type |-> None]

\* one accepted implementation of a binary operator (wrapper.rs 393-461):
\* st is [out, panicked, msg], msg the message of the panic
WriteBinOp(st, rep, impl_, item, w, index, config) ==
    IF item.kind # "Function"
    THEN [st EXCEPT !.panicked = TRUE, !.msg = "Expected method"]
    ELSE
      LET ops == BinOpOperands([res |-> "ok", strs |-> <<>>], item.inputs,
                               w.wrapped_type, config)
      IN IF ops.res = "panic" THEN [st EXCEPT !.panicked = TRUE, !.msg = "called Option::unwrap() on a None value"]
         ELSE IF ops.res = "err" THEN st
         ELSE
           LET expr == JoinStr(ops.strs, " " \o rep \o " ")
               out_type == BinOpOutType(impl_, index)
           IN IF out_type.res = "panic"
              THEN [st EXCEPT !.panicked = TRUE, !.msg = "called Option::unwrap() on a None value"]
              ELSE IF out_type.res = "err" THEN st
              ELSE
                LET arg_type == TryIntoArgType(out_type.type[1]) IN
                IF ~arg_type.ok THEN st
                ELSE LET wrapper_type == with_config(w.wrapped_type, arg_type.val, config) IN
                     IF ~IsSome(wrapper_type)
                     THEN [st EXCEPT !.panicked = TRUE, !.msg = "called Option::unwrap() on a None value"]
                     ELSE IF wrapper_type[1] = "None" THEN st
                     ELSE [st EXCEPT !.out =
                             @ \o <<expr, " -> ", ArgStr(arg_type.val, wrapper_type[1]),
                                    ",", "\n">>]

RECURSIVE WriteBinOpSeq(_, _, _, _, _, _)
\* the implementations of one operator, in order; a panic ends the pass
WriteBinOpSeq(st, rep, pairs, w, index, config) ==
    IF pairs = <<>> \/ st.panicked THEN st
    ELSE WriteBinOpSeq(
            IF BinOpAccepted(Head(pairs)[1], w.wrapped_type, config)
            THEN WriteBinOp(st, rep, Head(pairs)[1], Head(pairs)[2], w, index, config)
            ELSE st,
            rep, Tail(pairs), w, index, config)

RECURSIVE WriteBinOpsFrom(_, _, _, _, _)
WriteBinOpsFrom(st, k, w, index, config) ==
    IF k > Len(BINARY_OPS) \/ st.panicked THEN st
    ELSE LET items == ImplItemsGet(w.impl_items, BINARY_OPS[k][1])
         IN WriteBinOpsFrom(
               IF IsSome(items)
               THEN WriteBinOpSeq(st, BINARY_OPS[k][2], items[1], w, index, config)
               ELSE st,
               k + 1, w, index, config)

\* the BinOps block (wrapper.rs 371-464)
WriteBinOps(w, index, config, out) ==
    LET st == WriteBinOpsFrom([out |-> Write(Writeln(out, "+ BinOps"), "("),
                               panicked |-> FALSE, msg |-> ""], 1, w, index, config)
    IN IF st.panicked THEN st ELSE [st EXCEPT !.out = Write(@, ")")]

\* the UnaryOps block with a line only for the implementations for the type itself
WriteUnaryOps_OnlyForTarget(w, out) ==
    LET lines(k) ==
          LET items == ImplItemsGet(w.impl_items, UNARY_OPS[k][1])
          IN IF IsSome(items)
             THEN Concat([i \in DOMAIN items[1] |->
                            IF items[1][i][1].for_ = TResolvedPath(w.wrapped_type)
                            THEN <<UNARY_OPS[k][2], " self -> self", "\n">>
                            ELSE <<>>])
             ELSE <<>>
    IN Write(Write(Writeln(out, "+ UnaryOps"), "(")
             \o Concat([k \in DOMAIN UNARY_OPS |-> lines(k)]), ")")

\* the UnaryOps block (wrapper.rs 466-477)
WriteUnaryOps(w, out) ==
    LET lines(k) ==
          LET items == ImplItemsGet(w.impl_items, UNARY_OPS[k][1])
          IN IF IsSome(items)
             THEN Concat([i \in DOMAIN items[1] |->
                            <<UNARY_OPS[k][2], " self -> self", "\n">>])
             ELSE <<>>
    IN Write(Write(Writeln(out, "+ UnaryOps"), "(")
             \o Concat([k \in DOMAIN UNARY_OPS |-> lines(k)]), ")")

\* the derive flags of the configuration (wrapper.rs 479-484); a flag is a
\* sequence of lines
WriteDeriveFlags(w, out) ==
    out \o Concat([i \in DOMAIN w.config.derive_flags |->
                     <<"+ ">> \o Concat([j \in DOMAIN w.config.derive_flags[i] |->
                                           <<w.config.derive_flags[i][j], "\n">>])])

\* the flags for the implemented Clone and Debug (wrapper.rs 146-154)
WriteCloneDebug(w, out) ==
    (IF "Clone" \in Range(w.implemented_traits) THEN Writeln(out, "Clone +") ELSE out)
    \o (IF "Debug" \in Range(w.implemented_traits) THEN <<"Debug +", "\n">> ELSE <<>>)

\* the end of write_derive_flags_body (wrapper.rs 464-486): m is the result of
\* the Methods block, b of the BinOps block
DeriveFlagsTail(w, m, b) ==
    [out |-> IF b.panicked THEN b.out ELSE WriteDeriveFlags(w, WriteUnaryOps(w, b.out)),
     has_global_methods |-> m.has_global_methods,
     panicked |-> b.panicked,
     msg |-> b.msg]

\* write_derive_flags_body after the Methods block (wrapper.rs 289-486)
DeriveFlagsAfterMethods(w, index, config, m) ==
    DeriveFlagsTail(w, m,
        WriteBinOps(w, index, config,
                    WriteFields(w, index, config, m.out, m.used_method_identifiers)))

\* WrappedItem::write_derive_flags_body: [out, has_global_methods, panicked, msg]
write_derive_flags_body(w, index, config, out, args) ==
    DeriveFlagsAfterMethods(w, index, config,
                            WriteMethods(w, config, WriteCloneDebug(w, out), args))

\* WrappedItem::write_inline_full_path
write_inline_full_path(w, out) ==
    IF w.config.import_path = "" THEN out \o Join(w.path_components, "::")
    ELSE Write(out, w.config.import_path)

\* WrappedItem::write_type_docstring: doc and docs are sequences of lines
write_type_docstring(w, out) ==
    LET strings == IF IsSome(w.config.doc) THEN w.config.doc[1] ELSE w.item.docs
    IN out \o Concat([i \in DOMAIN strings |-> <<"/// ", strings[i], "\n">>])

\* WrappedItem::write_impl_block_body
write_impl_block_body(w, out) ==
    out \o Concat([i \in DOMAIN w.config.lua_methods |->
                     <<w.config.lua_methods[i], ";", "\n">>])

(***************************************************************************)
(* The type graph (rustdoc_types::Crate): index maps an id to its Item,     *)
(* paths maps the id of a type to its path.  A graph is built here from the *)
(* declarations of its types.                                               *)
(***************************************************************************)
StructItem(id, name, docs, plain, fields, impls) ==
    [id |-> id, kind |-> "Struct", name |-> name, docs |-> docs, plain |-> plain,
     fields |-> fields, impls |-> impls]
EnumItem(id, name, docs, impls) ==
    [id |-> id, kind |-> "Enum", name |-> name, docs |-> docs, impls |-> impls]
ImplItem(id, trait_, for_, items) ==
    [id |-> id, kind |-> "Impl", trait_ |-> trait_, for_ |-> for_, items |-> items]
FunctionItem(id, name, docs, inputs, output, generics) ==
    [id |-> id, kind |-> "Function", name |-> name, docs |-> docs, inputs |-> inputs,
     output |-> output, generics |-> generics]
FieldItem(id, name, docs, type, attrs) ==
    [id |-> id, kind |-> "StructField", name |-> name, docs |-> docs, type |-> type,
     attrs |-> attrs]
AssocTypeItem(id, name, default) ==
    [id |-> id, kind |-> "AssocType", name |-> name, default |-> default]

\* declarations: a method, an associated type, a field, an impl block, a type
Fn(name, inputs, output, generics) ==
    [kind |-> "Function", name |-> name, docs |-> <<>>, inputs |-> inputs,
     output |-> output, generics |-> generics]
AssocTy(name, default) == [kind |-> "AssocType", name |-> name, default |-> default]
Field(name, type, attrs) == [name |-> name, docs |-> <<>>, type |-> type, attrs |-> attrs]
ImplDecl(trait_, for_, members) == [trait_ |-> trait_, for_ |-> for_, members |-> members]
TypeDecl(id, name, kind, plain, path, fields, impls) ==
    [id |-> id, name |-> name, kind |-> kind, plain |-> plain, docs |-> <<>>,
     path |-> path, fields |-> fields, impls |-> impls]

FieldId(t, i) == t.id \o ".f" \o ToString(i)
ImplId(t, j) == t.id \o ".i" \o ToString(j)
MemberId(t, j, k) == ImplId(t, j) \o ".m" \o ToString(k)

\* the items one type declaration puts in the index
ItemsOf(t) ==
    LET fields == [i \in DOMAIN t.fields |-> FieldId(t, i)]
        impls == [j \in DOMAIN t.impls |-> ImplId(t, j)]
        member(j, k) ==
            LET m == t.impls[j].members[k] IN
            IF m.kind = "Function"
            THEN FunctionItem(MemberId(t, j, k), m.name, m.docs, m.inputs, m.output, m.generics)
            ELSE AssocTypeItem(MemberId(t, j, k), m.name, m.default)
    IN {IF t.kind = "Struct" THEN StructItem(t.id, t.name, t.docs, t.plain, fields, impls)
        ELSE EnumItem(t.id, t.name, t.docs, impls)}
       \cup {FieldItem(FieldId(t, i), t.fields[i].name, t.fields[i].docs, t.fields[i].type,
                       t.fields[i].attrs) : i \in DOMAIN t.fields}
       \cup {ImplItem(ImplId(t, j), t.impls[j].trait_, t.impls[j].for_,
                      [k \in DOMAIN t.impls[j].members |-> MemberId(t, j, k)])
               : j \in DOMAIN t.impls}
       \cup UNION {{member(j, k) : k \in DOMAIN t.impls[j].members} : j \in DOMAIN t.impls}

\* the graph of a sequence of type declarations
Crate(decls) ==
    LET items == UNION {ItemsOf(decls[i]) : i \in DOMAIN decls}
    IN [index |-> [id \in {it.id : it \in items} |-> CHOOSE it \in items : it.id = id],
        paths |-> [id \in {decls[i].id : i \in DOMAIN decls} |->
                     decls[CHOOSE i \in DOMAIN decls : decls[i].id = id].path]]

(***************************************************************************)
(* lib: the generator.                                                     *)
(***************************************************************************)
\* A module name is the sequence of the bytes of its str (UTF-8): a byte
\* below 0x80 is the one-character string of its ASCII character, any other
\* byte the string of its two hexadecimal digits, so that str::len is Len.

\* starts_with("bevy") on a module name: its first four bytes are those of bevy
StartsWithBevy(module_name) ==
    /\ Len(module_name) >= 4
    /\ SubSeq(module_name, 1, 4) = <<"b", "e", "v", "y">>

\* str::is_char_boundary(n): the start, the end, or a byte that is not a
\* continuation byte (0x80 to 0xBF)
IsCharBoundary(module_name, n) ==
    \/ n = 0
    \/ n = Len(module_name)
    \/ /\ n < Len(module_name)
       /\ module_name[n + 1] \notin {h \o l : h \in {"8", "9", "A", "B"},
                                             l \in {"0", "1", "2", "3", "4", "5", "6", "7",
                                                    "8", "9", "A", "B", "C", "D", "E", "F"}}

\* &module_name[n..]: the bytes from byte n on, or None when n is past the
\* end or inside a character (the slice panics)
SliceFrom(module_name, n) ==
    IF IsCharBoundary(module_name, n)
    THEN Some(SubSeq(module_name, n + 1, Len(module_name)))
    ELSE None

\* write_use_items_from_path: [out, panicked]
write_use_items_from_path(module_name, path_components, import_path, out) ==
    LET out1 == Write(out, "use ")
        segments == Concat([i \in DOMAIN path_components |-> <<"::", path_components[i]>>])
    IN IF import_path # ""
       THEN [out |-> Writeln(Write(out1, import_path), ";"), panicked |-> FALSE]
       ELSE IF StartsWithBevy(module_name) /\ Len(module_name) > 5
       THEN IF IsSome(SliceFrom(module_name, 5))
            THEN [out |-> Writeln((Write(out1, "bevy::") \o SliceFrom(module_name, 5)[1])
                                  \o segments, ";"),
                  panicked |-> FALSE]
            ELSE [out |-> Write(out1, "bevy::"), panicked |-> TRUE]
       ELSE [out |-> Writeln((out1 \o module_name) \o segments, ";"), panicked |-> FALSE]

\* generate_cfg_feature_attribute
generate_cfg_feature_attribute(config, out) ==
    IF Len(config.required_features) = 1
    THEN out \o <<"#[cfg(feature=\"", config.required_features[1], "\")]", "\n">>
    ELSE IF config.required_features # <<>>
    THEN (Writeln(out, "#[cfg(all(")
          \o Concat([i \in DOMAIN config.required_features |->
                       <<"feature=\"", config.required_features[i], "\",", "\n">>]))
         \o <<"))]", "\n">>
    ELSE out

\* generate_on_feature_attribute
generate_on_feature_attribute(out) == Writeln(out, "#[languages(on_feature(lua))]")

HasName(item) == "name" \in DOMAIN item

\* the filter of generate_macros on the items of a graph (lib.rs 100-106)
Matches(item, source, config) ==
    /\ HasName(item)
    /\ contains_key(config.types, item.name)
    /\ matches_result(TypesGet(config.types, item.name), item, source)

RECURSIVE CollectMembers(_, _, _, _)
\* i.items.iter().for_each(..) (lib.rs 127-134)
CollectMembers(impl_items, i, ids, index) ==
    IF ids = <<>> THEN impl_items
    ELSE CollectMembers(ImplItemsPush(impl_items, index[Head(ids)].name,
                                      <<i, index[Head(ids)]>>),
                        i, Tail(ids), index)

RECURSIVE CollectImpls(_, _, _)
\* impls.iter().for_each(..) (lib.rs 119-138): acc is
\* [self_impl, impl_items, implemented_traits]
CollectImpls(acc, impls, index) ==
    IF impls = <<>> THEN acc
    ELSE LET i == index[Head(impls)]
             acc1 == IF IsSome(i.trait_)
                     THEN [acc EXCEPT !.implemented_traits =
                             IF i.trait_[1] \in Range(@) THEN @ ELSE Append(@, i.trait_[1])]
                     ELSE [acc EXCEPT !.self_impl = Some(i)]
         IN CollectImpls([acc1 EXCEPT !.impl_items = CollectMembers(@, i, i.items, index)],
                         Tail(impls), index)

\* the WrappedItem of a matched item (lib.rs 107-165); source is the position
\* of its graph among the graphs
NewWrappedItem(id, source, crates, config) ==
    LET item == crates[source].index[id]
        c == CollectImpls([self_impl |-> None, impl_items |-> <<>>,
                           implemented_traits |-> <<>>],
                          item.impls, crates[source].index)
    IN [wrapper_name |-> WRAPPER_PREFIX \o item.name,
        wrapped_type |-> item.name,
        path_components |-> path_to_import(get_path(id, crates[source])[1], crates[source]),
        source |-> source,
        config |-> TypesGet(config.types, item.name),
        item |-> item,
        self_impl |-> c.self_impl,
        impl_items |-> c.impl_items,
        has_global_methods |-> FALSE,
        implemented_traits |-> c.implemented_traits]

MatchedIds(source, config) ==
    {id \in DOMAIN source.index : Matches(source.index[id], source, config)}

\* the orders in which the hash-keyed index of each graph may hand out its
\* matching items: any order, each graph on its own
IterationOrders(crates, config) ==
    LET all == UNION {Orderings(MatchedIds(crates[k], config)) : k \in DOMAIN crates}
    IN {o \in [DOMAIN crates -> all] :
          \A k \in DOMAIN crates : o[k] \in Orderings(MatchedIds(crates[k], config))}

\* crates.iter().flat_map(..).collect() (lib.rs 94-167) under iteration order o
CollectWrapped(crates, config, o) ==
    Concat([k \in DOMAIN crates |->
              [i \in DOMAIN o[k] |-> NewWrappedItem(o[k][i], k, crates, config)]])

RECURSIVE InsertSorted(_, _, _)
InsertSorted(sorted, w, types) ==
    IF sorted = <<>> THEN <<w>>
    ELSE IF get_index_of(types, Head(sorted).wrapped_type) <= get_index_of(types, w.wrapped_type)
    THEN <<Head(sorted)>> \o InsertSorted(Tail(sorted), w, types)
    ELSE <<w>> \o sorted

RECURSIVE SortFrom(_, _, _)
SortFrom(sorted, items, types) ==
    IF items = <<>> THEN sorted
    ELSE SortFrom(InsertSorted(sorted, Head(items), types), Tail(items), types)

\* the items left in the order the indexes handed them out
SortByConfig_Unsorted(items, types) == items

\* wrapped_items.sort_by_cached_key(|f| config.types.get_index_of(..)): a stable
\* sort by the position of the type in the configuration (lib.rs 180)
SortByConfig(items, types) == SortFrom(<<>>, items, types)

RECURSIVE MoveTypes(_, _)
\* while !types_.is_empty() { t = types_.remove(len - 1); types.insert(..) }
MoveTypes(types_, types) ==
    IF types_ = <<>> THEN types
    ELSE MoveTypes(SubSeq(types_, 1, Len(types_) - 1),
                   IndexMapInsert(types, types_[Len(types_)]))

Reverse(s) == [i \in DOMAIN s |-> s[Len(s) + 1 - i]]

\* the imports of the accepted interfaces of one item, none of them skipped
RECURSIVE ImportTraits_NoDedup(_, _)
ImportTraits_NoDedup(st, traits) ==
    IF traits = <<>> THEN st
    ELSE ImportTraits_NoDedup(
            [out |-> st.out \o <<"use ", Head(traits).import_path, ";", "\n">>,
             imported |-> st.imported \cup {Head(traits).name}],
            Tail(traits))

\* the imports of the accepted interfaces of one item (lib.rs 202-215): st is
\* [out, imported]
RECURSIVE ImportTraits(_, _)
ImportTraits(st, traits) ==
    IF traits = <<>> THEN st
    ELSE ImportTraits(
            IF Head(traits).name \notin st.imported
            THEN [out |-> st.out \o <<"use ", Head(traits).import_path, ";", "\n">>,
                  imported |-> st.imported \cup {Head(traits).name}]
            ELSE st,
            Tail(traits))

RECURSIVE ImportAllTraits(_, _)
\* lib.rs 199-216
ImportAllTraits(st, items) ==
    IF items = <<>> THEN st
    ELSE ImportAllTraits(ImportTraits(st, Head(items).config.traits), Tail(items))

\* the macro invocation of one item up to its derive flags (lib.rs 223-233)
MacroHead(w, out) ==
    LET out1 == Write(Write(out, "impl_script_newtype!"), "{")
        out2 == Writeln(generate_on_feature_attribute(out1), "#[languages(on_feature(lua))]")
    IN Write(write_inline_full_path(w, write_type_docstring(w, out2)), " : ") \o <<"\n">>

\* the macro invocation of one item after its derive flags (lib.rs 237-242)
MacroTail(w, out) ==
    Write(Write(write_impl_block_body(w, Write(Writeln(out, "lua impl"), "{")), "}"), "}")

\* an entry of the global-instance registry (lib.rs 284-304)
InstanceEntry(global_name, type_, dummy_proxy) ==
    <<"instances.add_instance(", "\"", global_name, "\"">>
    \o (IF dummy_proxy
        THEN <<", crate::lua::util::DummyTypeName::<", type_, ">::new", ")?;", "\n">>
        ELSE <<", bevy_mod_scripting_lua::tealr::mlu::UserDataProxy::<", type_, ">::new)?;",
               "\n">>)

\* the entries of the registry: the generated types flagged as having global
\* methods, then the manual types asking for a proxy (lib.rs 267-305)
InstanceEntries(items, config) ==
    Concat([i \in DOMAIN items |->
              IF items[i].has_global_methods
              THEN InstanceEntry(items[i].wrapped_type, items[i].wrapper_name, FALSE)
              ELSE <<>>])
    \o Concat([i \in DOMAIN config.manual_lua_types |->
                 IF config.manual_lua_types[i].include_global_proxy
                 THEN InstanceEntry(config.manual_lua_types[i].proxy_name,
                                    config.manual_lua_types[i].name,
                                    config.manual_lua_types[i].use_dummy_proxy)
                 ELSE <<>>])

\* the other code and the globals (lib.rs 247-309)
WriteGlobals(items, config, out) ==
    LET out1 == out \o Concat([i \in DOMAIN config.other |-> <<config.other[i], "\n">>])
        out2 == Writeln(generate_cfg_feature_attribute(config, out1), "#[derive(Default)]")
                \o <<"pub(crate) struct ", config.api_name, "Globals;", "\n">>
        out3 == generate_cfg_feature_attribute(config, out2)
                \o <<"impl bevy_mod_scripting_lua::tealr::mlu::ExportInstances for ",
                     config.api_name, "Globals", "{",
                     "fn add_instances<'lua, T: bevy_mod_scripting_lua::tealr::mlu::InstanceCollector<'lua>>(self, instances: &mut T) -> bevy_mod_scripting_lua::tealr::mlu::mlua::Result<()>",
                     "\n", "{">>
    IN (out3 \o InstanceEntries(items, config)) \o <<"Ok(())", "\n", "}", "}">>

\* an entry of the documentation hook (lib.rs 365-378)
ProcessTypeEntry(type_, include_proxy) ==
    <<".process_type::<", type_, ">()", "\n">>
    \o (IF include_proxy
        THEN <<".process_type::<bevy_mod_scripting_lua::tealr::mlu::UserDataProxy<", type_,
               ">>()", "\n">>
        ELSE <<>>)

\* the provider (lib.rs 311-411)
WriteProvider(items, config, out) ==
    LET out1 == generate_cfg_feature_attribute(config, out)
                \o <<"pub struct Lua", config.api_name, "Provider;", "\n">>
        out2 == generate_cfg_feature_attribute(config, out1)
                \o <<"impl APIProvider for Lua", config.api_name, "Provider", "{",
                     "type APITarget = Mutex<bevy_mod_scripting_lua::tealr::mlu::mlua::Lua>;", "\n",
                     "type ScriptContext = Mutex<bevy_mod_scripting_lua::tealr::mlu::mlua::Lua>;", "\n",
                     "type DocTarget = LuaDocFragment;", "\n",
                     "fn attach_api(&mut self, ctx: &mut Self::APITarget) -> Result<(), ScriptError>",
                     "{",
                     "let ctx = ctx.get_mut().expect(\"Unable to acquire lock on Lua context\");",
                     "\n",
                     "bevy_mod_scripting_lua::tealr::mlu::set_global_env(", config.api_name,
                     "Globals,ctx).map_err(|e| ScriptError::Other(e.to_string()))", "\n",
                     "}",
                     "fn get_doc_fragment(&self) -> Option<Self::DocTarget>", "{",
                     "Some(LuaDocFragment::new(\"", config.api_name, "\", |tw|", "{",
                     "tw", "\n",
                     ".document_global_instance::<", config.api_name,
                     "Globals>().expect(\"Something went wrong documenting globals\")", "\n">>
        out3 == (out2 \o Concat([i \in DOMAIN items |->
                                   ProcessTypeEntry(items[i].wrapper_name,
                                                    items[i].has_global_methods)]))
                \o Concat([i \in DOMAIN config.manual_lua_types |->
                             IF ~config.manual_lua_types[i].dont_process
                             THEN ProcessTypeEntry(config.manual_lua_types[i].name,
                                                   config.manual_lua_types[i].include_global_proxy)
                             ELSE <<>>])
        out4 == (out3 \o <<"}", "))", "\n", "}">>)
                \o Concat([i \in DOMAIN config.lua_api_defaults |->
                             <<config.lua_api_defaults[i], "\n">>])
        out5 == (out4 \o <<"fn register_with_app(&self, app: &mut App)", "{">>)
                \o Concat([i \in DOMAIN items |->
                             <<"app.register_foreign_lua_type::<", items[i].wrapped_type,
                               ">();", "\n">>])
                \o Concat([i \in DOMAIN config.primitives |->
                             <<"app.register_foreign_lua_type::<", config.primitives[i],
                               ">();", "\n">>])
    IN out5 \o <<"}", "}">>

RECURSIVE WriteUseItems(_, _)
\* the import of every item from the k-th on (lib.rs 190-197): st is
\* [out, panicked]; a panic ends the pass
WriteUseItems(st, items) ==
    IF items = <<>> \/ st.panicked THEN st
    ELSE WriteUseItems(write_use_items_from_path(Head(items).config.source,
                                                 Tail(Head(items).path_components),
                                                 Head(items).config.import_path, st.out),
                       Tail(items))

\* the head of the file and the import of every item (lib.rs 182-197):
\* [out, panicked]
WriteHead(items, config) ==
    WriteUseItems([out |-> Writeln(<<>>, "#![allow(clippy::all,unused_imports)]")
                           \o Concat([i \in DOMAIN config.imports |->
                                        <<config.imports[i], "\n">>]),
                   panicked |-> FALSE],
                  items)

\* the end of one pass of the macro loop (lib.rs 235-244): r is the result of
\* write_derive_flags_body.  A panic leaves the file as written that far.
MacroEnd(items, k, r) ==
    [items |-> [items EXCEPT ![k].has_global_methods = r.has_global_methods],
     out |-> IF r.panicked THEN r.out ELSE MacroTail(items[k], r.out),
     panicked |-> r.panicked,
     msg |-> r.msg]

\* one pass of the macro loop, for the k-th item (lib.rs 221-245)
MacroStep(items, k, crates, config, out, args) ==
    MacroEnd(items, k,
             write_derive_flags_body(items[k], crates[items[k].source].index, config,
                                     MacroHead(items[k], out), args))

(***************************************************************************)
(* The run.                                                                *)
(***************************************************************************)
VARIABLES
    pc,               \* the position of the run
    args,             \* Args: [print_errors]
    crates,           \* the type graphs read from args.json
    config,           \* Config
    wrapped_items,    \* Vec<WrappedItem>
    unmatched_types,  \* HashSet<&String>
    created,          \* whether File::create(&config.output_file) has run
    out,              \* the fragments written to the output file
    imported,         \* HashSet<String> of imported interfaces
    cursor,           \* the position of the macro loop in wrapped_items
    panic             \* None, or Some(message) of the panic that ended the run

vars == <<pc, args, crates, config, wrapped_items, unmatched_types, created, out,
          imported, cursor, panic>>

\* generate_api_for_crates: the graphs and the configuration are read and the
\* type list is moved into the ordered map (lib.rs 414-434)
LoadConfig ==
    /\ pc = "start"
    /\ config' = [config EXCEPT !.types = MoveTypes(Reverse(config.types_), <<>>),
                                !.types_ = <<>>]
    /\ pc' = "generate_macros"
    /\ UNCHANGED <<args, crates, wrapped_items, unmatched_types, created, out, imported,
                   cursor, panic>>

\* generate_macros: the matching items become WrappedItems, in the order the
\* indexes hand them out (lib.rs 92-167)
CollectItems ==
    /\ pc = "generate_macros"
    /\ \E o \in IterationOrders(crates, config) :
          wrapped_items' = CollectWrapped(crates, config, o)
    /\ unmatched_types' = TypesKeys(config.types)
    /\ pc' = "collected"
    /\ UNCHANGED <<args, crates, config, created, out, imported, cursor, panic>>

\* only the names of the items of the first graph are removed
StillUnmatched_FirstGraphOnly(unmatched, items) ==
    unmatched \ {items[i].wrapped_type : i \in {j \in DOMAIN items : items[j].source = 1}}

\* the names still unmatched once every WrappedItem's name is removed
\* (lib.rs 169-171)
StillUnmatched(unmatched, items) ==
    unmatched \ {items[i].wrapped_type : i \in DOMAIN items}

\* some configured type was found in no graph (lib.rs 169-175)
PanicUnmatched ==
    /\ pc = "collected"
    /\ StillUnmatched(unmatched_types, wrapped_items) # {}
    /\ unmatched_types' = StillUnmatched(unmatched_types, wrapped_items)
    /\ panic' = Some([msg |-> "Some types were not found in the given crates: ",
                      types |-> unmatched_types'])
    /\ pc' = "panicked"
    /\ UNCHANGED <<args, crates, config, wrapped_items, created, out, imported, cursor>>

\* the output is created, the items are sorted, the head of the file and the
\* import of every item are written (lib.rs 169-197); a panic of a slice
\* ends the run with the file written that far
CreateOutput ==
    /\ pc = "collected"
    /\ StillUnmatched(unmatched_types, wrapped_items) = {}
    /\ unmatched_types' = {}
    /\ created' = TRUE
    /\ wrapped_items' = SortByConfig(wrapped_items, config.types)
    /\ \E r \in {WriteHead(wrapped_items', config)} :
          /\ out' = r.out
          /\ IF r.panicked
             THEN /\ panic' = Some([msg |-> "byte index 5 is not a char boundary",
                                    types |-> {}])
                  /\ pc' = "panicked"
             ELSE /\ pc' = "imports"
                  /\ UNCHANGED panic
    /\ UNCHANGED <<args, crates, config, imported, cursor>>

\* the imports of the accepted interfaces (lib.rs 199-216)
ImportInterfaces ==
    /\ pc = "imports"
    /\ \E st \in {ImportAllTraits([out |-> out, imported |-> {}], wrapped_items)} :
          out' = st.out /\ imported' = st.imported
    /\ cursor' = 1
    /\ pc' = "macros"
    /\ UNCHANGED <<args, crates, config, wrapped_items, unmatched_types, created, panic>>

\* the macro invocation of the next item (lib.rs 221-245); a panic inside the
\* BinOps block ends the run with the file written that far
WriteMacro ==
    /\ pc = "macros"
    /\ cursor <= Len(wrapped_items)
    /\ \E r \in {MacroStep(wrapped_items, cursor, crates, config, out, args)} :
          /\ wrapped_items' = r.items
          /\ out' = r.out
          /\ IF r.panicked
             THEN /\ panic' = Some([msg |-> r.msg,
                                    types |-> {wrapped_items[cursor].wrapped_type}])
                  /\ pc' = "panicked"
                  /\ cursor' = cursor
             ELSE /\ cursor' = cursor + 1
                  /\ UNCHANGED <<pc, panic>>
    /\ UNCHANGED <<args, crates, config, unmatched_types, created, imported>>

\* the other code and the globals (lib.rs 247-309)
Globals ==
    /\ pc = "macros"
    /\ cursor > Len(wrapped_items)
    /\ out' = WriteGlobals(wrapped_items, config, out)
    /\ pc' = "provider"
    /\ UNCHANGED <<args, crates, config, wrapped_items, unmatched_types, created, imported,
                   cursor, panic>>

\* the provider (lib.rs 311-411)
Provider ==
    /\ pc = "provider"
    /\ out' = WriteProvider(wrapped_items, config, out)
    /\ pc' = "done"
    /\ UNCHANGED <<args, crates, config, wrapped_items, unmatched_types, created, imported,
                   cursor, panic>>

Next ==
    \/ LoadConfig
    \/ CollectItems
    \/ PanicUnmatched
    \/ CreateOutput
    \/ ImportInterfaces
    \/ WriteMacro
    \/ Globals
    \/ Provider

(***************************************************************************)
(* The inputs of a run: the type graphs, the configuration as loaded from   *)
(* its file (the type list in types_, the ordered map empty), the           *)
(* diagnostics flag.  They are drawn from four bounded families.            *)
(***************************************************************************)
MaxTypes == 3     \* the longest type list of a configuration
MaxCrates == 2    \* the number of type graphs of a run
MaxParams == 2    \* the most parameters of a method besides its receiver
MaxFields == 2    \* the most fields of a record

TypeNames == <<"A", "B", "C">>
FieldNames == <<"value", "w", "z", "u">>

T_f32 == TPrimitive("f32")
T_A == TResolvedPath("A")
T_Foo == TResolvedPath("Foo")
T_Self == TGeneric("Self")
T_RefSelf == TBorrowedRef(FALSE, T_Self)
T_RefA == TBorrowedRef(FALSE, T_A)
T_RefMutTuple == TBorrowedRef(TRUE, TTuple)

GLAM == <<"g", "l", "a", "m">>
BEVY == <<"b", "e", "v", "y">>
BEVY_MATH == BEVY \o <<"_", "m", "a", "t", "h">>

TraitMethods(name) == [name |-> name, import_path |-> "std::ops::" \o name]

NewtypeOf(name, traits) ==
    [type_ |-> name, import_path |-> "", traits |-> traits, doc |-> None,
     derive_flags |-> <<>>, lua_methods |-> <<>>,
     source |-> IF name = "A" THEN GLAM ELSE BEVY_MATH]

ConfigOf(newtypes) ==
    [types_ |-> newtypes, types |-> <<>>, primitives |-> <<"f32">>, imports |-> <<>>,
     other |-> <<>>, lua_api_defaults |-> <<>>, api_name |-> "Bevy",
     output_file |-> "generated.rs", manual_lua_types |-> <<>>,
     required_features |-> <<>>]

\* sequences over S of length at most n
SeqsUpTo(S, n) == UNION {[1 .. k -> S] : k \in 0 .. n}

(* Family 1: whole runs.  The configuration lists up to MaxTypes names; each  *)
(* name is absent from the graphs, declared in one of them, declared twice in *)
(* the first, or declared in the first and in the last.                       *)
RunTraits(name) ==
    CASE name = "A" -> <<TraitMethods("Add")>>
      [] name = "B" -> <<TraitMethods("Neg"), TraitMethods("Add")>>
      [] OTHER -> <<>>

DeclA(id, module) ==
    TypeDecl(id, "A", "Struct", TRUE, <<module, "A">>,
             <<Field(IF id = "A" THEN "x" ELSE "y", T_f32, <<>>)>>,
             IF id = "A"
             THEN <<ImplDecl(None, T_A, <<Fn("new", <<<<"x", T_f32>>>>, Some(T_Self), 0)>>)>>
             ELSE <<>>)
DeclB ==
    TypeDecl("B", "B", "Struct", TRUE, <<"bevy_math", "B">>, <<>>,
             <<ImplDecl(None, T_Foo, <<Fn("len", <<<<"self", T_RefSelf>>>>, Some(T_f32), 0)>>)>>)
DeclC == TypeDecl("C", "C", "Enum", FALSE, <<"bevy_math", "C">>, <<>>, <<>>)

PlacementsA == (0 .. MaxCrates) \cup {-1, -2}   \* -1: twice in the first, -2: first and last
PlacementsB == 0 .. MaxCrates
PlacementsC == 0 .. 1

RunCrates(pa, pb, pc_) ==
    [k \in 1 .. MaxCrates |->
       Crate((IF pa = k \/ (k = 1 /\ pa < 0) THEN <<DeclA("A", "glam")>> ELSE <<>>)
             \o (IF (pa = -1 /\ k = 1) \/ (pa = -2 /\ k = MaxCrates)
                 THEN <<DeclA("A2", "other")>> ELSE <<>>)
             \o (IF pb = k THEN <<DeclB>> ELSE <<>>)
             \o (IF pc_ = k THEN <<DeclC>> ELSE <<>>))]

InitRun ==
    \E names \in SeqsUpTo(Range(TypeNames), MaxTypes) :
    \E pa \in PlacementsA : \E pb \in PlacementsB : \E pc_ \in PlacementsC :
       /\ crates = RunCrates(pa, pb, pc_)
       /\ config = ConfigOf([i \in DOMAIN names |-> NewtypeOf(names[i], RunTraits(names[i]))])
       /\ args = [print_errors |-> FALSE]

(* Family 2: methods.  One configured record A with the field value and two   *)
(* inherent methods: value, whose receiver, parameters, return type and       *)
(* generics vary, and get(&self) -> f32.                                      *)
ParamTypes == {T_f32, T_A, T_Foo, TTuple}
OutputTypes ==
    {None, Some(T_f32), Some(T_Self), Some(T_RefA), Some(T_RefMutTuple), Some(T_Foo),
     Some(TTuple)}
ParamNames == <<"x", "y", "z">>

MethodCrate(receiver, params, output, generics) ==
    Crate(<<TypeDecl("A", "A", "Struct", TRUE, <<"glam", "A">>,
              <<Field("value", T_f32, <<>>)>>,
              <<ImplDecl(None, T_A,
                 <<[Fn("value",
                       (IF receiver THEN <<<<"self", T_RefSelf>>>> ELSE <<>>)
                       \o [i \in DOMAIN params |-> <<ParamNames[i], params[i]>>],
                       output, generics) EXCEPT !.docs = <<"the value">>],
                   Fn("get", <<<<"self", T_RefSelf>>>>, Some(T_f32), 0)>>)>>)>>)

InitMethod ==
    \E receiver \in BOOLEAN : \E params \in SeqsUpTo(ParamTypes, MaxParams) :
    \E output \in OutputTypes : \E generics \in 0 .. 1 : \E print_errors \in BOOLEAN :
       /\ crates = <<MethodCrate(receiver, params, output, generics)>>
       /\ config = ConfigOf(<<NewtypeOf("A", <<>>)>>)
       /\ args = [print_errors |-> print_errors]

(* Family 3: fields.  One configured type A: a plain record or a tuple       *)
(* record with up to MaxFields fields, whose types and ignore annotations     *)
(* vary, and a method value that is absent, Included or Excluded.             *)
FieldTypes == {T_f32, T_A, T_Foo, TTuple, T_Self}
FieldAttrs == {<<>>, <<"#[reflect(ignore)]">>}
ValueMethods ==
    {<<>>,
     <<Fn("value", <<<<"self", T_RefSelf>>>>, Some(T_f32), 0)>>,
     <<Fn("value", <<<<"self", T_RefSelf>>, <<"x", T_Foo>>>>, Some(T_f32), 0)>>}

FieldCrate(plain, fields, methods) ==
    Crate(<<TypeDecl("A", "A", "Struct", plain, <<"glam", "A">>,
              [i \in DOMAIN fields |-> Field(FieldNames[i], fields[i][1], fields[i][2])],
              <<ImplDecl(None, T_A, methods)>>)>>)

InitField ==
    \E plain \in BOOLEAN : \E fields \in SeqsUpTo(FieldTypes \X FieldAttrs, MaxFields) :
    \E methods \in ValueMethods :
       /\ plain \/ methods = <<>>
       /\ crates = <<FieldCrate(plain, fields, methods)>>
       /\ config = ConfigOf(<<NewtypeOf("A", <<>>)>>)
       /\ args = [print_errors |-> FALSE]

(* Family 4: operators.  One configured record A with an implementation of    *)
(* Add for a type that varies (the record, a primitive or an unrelated type,   *)
(* by value or behind a reference, or Self), whose right operand and Output   *)
(* vary (the Output item may be missing, or be an associated type named       *)
(* add), and an implementation of Neg that is absent, plain (for A,           *)
(* neg(self) -> Output) or odd (for Foo, a generic neg(x: tuple) without      *)
(* return type); the interfaces Add and Neg are accepted or not.              *)
ForTypes ==
    {T_A, T_f32, T_Foo, T_Self, T_RefA, TBorrowedRef(TRUE, T_Self),
     TBorrowedRef(FALSE, T_f32), TBorrowedRef(FALSE, T_Foo)}
OperandTypes == {T_A, T_f32, T_Foo, TTuple}
OutputItems ==
    {<<>>, <<AssocTy("Output", None)>>, <<AssocTy("Output", Some(T_A))>>,
     <<AssocTy("Output", Some(T_Self))>>, <<AssocTy("add", Some(T_A))>>}
NegKinds == {"none", "plain", "odd"}

NegImpl(neg) ==
    CASE neg = "plain" ->
           <<ImplDecl(Some("Neg"), T_A,
               <<AssocTy("Output", Some(T_A)),
                 Fn("neg", <<<<"self", T_Self>>>>, Some(TResolvedPath("Output")), 0)>>)>>
      [] neg = "odd" ->
           <<ImplDecl(Some("Neg"), T_Foo, <<Fn("neg", <<<<"x", TTuple>>>>, None, 1)>>)>>
      [] OTHER -> <<>>

OperatorCrate(for_, rhs, output, neg) ==
    Crate(<<TypeDecl("A", "A", "Struct", TRUE, <<"glam", "A">>, <<>>,
              <<ImplDecl(Some("Add"), for_,
                   output \o <<Fn("add", <<<<"self", T_Self>>, <<"rhs", rhs>>>>,
                                  Some(TResolvedPath("Output")), 0)>>)>>
              \o NegImpl(neg))>>)

InitOperator ==
    \E for_ \in ForTypes : \E rhs \in OperandTypes : \E output \in OutputItems :
    \E neg \in NegKinds : \E accepted \in BOOLEAN :
       /\ crates = <<OperatorCrate(for_, rhs, output, neg)>>
       /\ config = ConfigOf(<<NewtypeOf("A", IF accepted
                                             THEN <<TraitMethods("Add"), TraitMethods("Neg")>>
                                             ELSE <<>>)>>)
       /\ args = [print_errors |-> FALSE]

(* Family 5: implementation blocks.  One configured record A with the field  *)
(* c and two implementation blocks: its own, with members among a and b that  *)
(* take the receiver only, and a second one, its own or of the interface      *)
(* Display (accepted or not), with members among a and c that take one        *)
(* parameter x, of type f32 or Foo, after the receiver or alone.              *)
MaxMembers == 2   \* the most members of an implementation block

FirstNames == {"a", "b"}
SecondNames == {"a", "c"}

OrderCrate(first, second, trait_, receiver, tp) ==
    Crate(<<TypeDecl("A", "A", "Struct", TRUE, <<"glam", "A">>,
              <<Field("c", T_f32, <<>>)>>,
              <<ImplDecl(None, T_A,
                   [i \in DOMAIN first |->
                      Fn(first[i], <<<<"self", T_RefSelf>>>>, Some(T_f32), 0)]),
                ImplDecl(trait_, T_A,
                   [i \in DOMAIN second |->
                      Fn(second[i],
                         (IF receiver THEN <<<<"self", T_RefSelf>>>> ELSE <<>>)
                         \o <<<<"x", tp>>>>,
                         Some(T_f32), 0)])>>)>>)

InitOrder ==
    \E first \in SeqsUpTo(FirstNames, MaxMembers) :
    \E second \in SeqsUpTo(SecondNames, MaxMembers) :
    \E trait_ \in {None, Some("Display")} : \E accepted, receiver \in BOOLEAN :
    \E tp \in {T_f32, T_Foo} : \E print_errors \in BOOLEAN :
       /\ crates = <<OrderCrate(first, second, trait_, receiver, tp)>>
       /\ config = ConfigOf(<<NewtypeOf("A", IF accepted THEN <<TraitMethods("Display")>>
                                             ELSE <<>>)>>)
       /\ args = [print_errors |-> print_errors]

(* Family 6: imports and feature gates.  One configured record A whose        *)
(* declaring module name is glam, a prefix of bevy_math or a name with a      *)
(* character of two bytes (e acute) or three (the euro sign), whose path has  *)
(* two or three segments, with or without an import-path override, under a    *)
(* configuration requiring no, one or two features.                           *)
ModuleNames ==
    LET e_acute == <<"C3", "A9">>
        euro == <<"E2", "82", "AC">>
    IN {GLAM, BEVY \o e_acute, (BEVY \o e_acute) \o <<"x">>, (BEVY \o <<"_">>) \o e_acute,
        (BEVY \o euro) \o <<"x">>, (BEVY \o <<"_">>) \o euro, e_acute \o BEVY}
       \cup {SubSeq(BEVY_MATH, 1, n) : n \in 1 .. Len(BEVY_MATH)}
ImportPaths == {"", "glam::f32::A"}
InnerSegments == {<<>>, <<"bevy_inner">>}
FeatureLists == {<<>>, <<"lua">>, <<"lua", "math">>}

ImportCrate(inner) ==
    Crate(<<TypeDecl("A", "A", "Struct", TRUE, <<"glam_core">> \o inner \o <<"A">>,
                     <<>>, <<>>)>>)

InitImport ==
    \E module \in ModuleNames : \E import_path \in ImportPaths :
    \E inner \in InnerSegments : \E features \in FeatureLists :
       /\ crates = <<ImportCrate(inner)>>
       /\ config = [ConfigOf(<<[NewtypeOf("A", <<>>) EXCEPT !.source = module,
                                                            !.import_path = import_path]>>)
                      EXCEPT !.required_features = features]
       /\ args = [print_errors |-> FALSE]

(* Family 7: two types.  The records A and B, configured in either order,    *)
(* each with one field named value or w and with a method value that is      *)
(* absent, Included or Excluded.                                              *)
T_B == TResolvedPath("B")
MethodKinds == {"none", "included", "excluded"}
PairFieldNames == {"value", "w"}
PairOrders == {<<"A", "B">>, <<"B", "A">>}

PairDecl(name, for_, method, field_) ==
    TypeDecl(name, name, "Struct", TRUE, <<"glam", name>>,
             <<Field(field_, T_f32, <<>>)>>,
             IF method = "none" THEN <<>>
             ELSE <<ImplDecl(None, for_,
                      <<Fn("value", <<<<"self", T_RefSelf>>>>,
                           Some(IF method = "included" THEN T_f32 ELSE T_Foo), 0)>>)>>)

PairCrate(a_method, a_field, b_method, b_field) ==
    Crate(<<PairDecl("A", T_A, a_method, a_field), PairDecl("B", T_B, b_method, b_field)>>)

InitPair ==
    \E a_method \in MethodKinds : \E b_method \in MethodKinds :
    \E a_field \in PairFieldNames : \E b_field \in PairFieldNames :
    \E order \in PairOrders : \E print_errors \in BOOLEAN :
       /\ crates = <<PairCrate(a_method, a_field, b_method, b_field)>>
       /\ config = ConfigOf([i \in DOMAIN order |-> NewtypeOf(order[i], <<>>)])
       /\ args = [print_errors |-> print_errors]

Init ==
    /\ pc = "start"
    /\ wrapped_items = <<>>
    /\ unmatched_types = {}
    /\ created = FALSE
    /\ out = <<>>
    /\ imported = {}
    /\ cursor = 0
    /\ panic = None
    /\ \/ InitRun
       \/ InitMethod
       \/ InitField
       \/ InitOperator
       \/ InitOrder
       \/ InitImport
       \/ InitPair

Spec == Init /\ [][Next]_vars

(***************************************************************************)
(* Reading the output back: the descriptor blocks of the file and the lines *)
(* of their Methods and Fields blocks.                                      *)
(***************************************************************************)
RECURSIVE BlockLines(_)
\* the lines of a part of the file as its writers laid them out: the
\* fragments between one "\n" fragment and the next
BlockLines(toks) ==
    IF toks = <<>> THEN <<>>
    ELSE LET nl == {i \in DOMAIN toks : toks[i] = "\n"}
         IN IF nl = {} THEN <<toks>>
            ELSE LET i == CHOOSE j \in nl : \A l \in nl : j <= l
                 IN <<SubSeq(toks, 1, i - 1)>> \o BlockLines(SubSeq(toks, i + 1, Len(toks)))

RECURSIVE SortedSet(_)
\* the elements of a set of numbers, ascending
SortedSet(S) ==
    IF S = {} THEN <<>>
    ELSE LET m == CHOOSE x \in S : \A y \in S : x <= y
         IN <<m>> \o SortedSet(S \ {m})

\* the fragments that follow each occurrence of tok, in order of occurrence
TokensAfter(toks, tok) ==
    LET at == SortedSet({i \in 1 .. Len(toks) - 1 : toks[i] = tok})
    IN [k \in DOMAIN at |-> toks[at[k] + 1]]

\* the fragments that precede each occurrence of tok, in order of occurrence
TokensBefore(toks, tok) ==
    LET at == SortedSet({i \in 2 .. Len(toks) : toks[i] = tok})
    IN [k \in DOMAIN at |-> toks[at[k] - 1]]

\* the type a written path names: the configured type whose import-path
\* override it is, or else the path's last segment itself
NamedType(tok, cfg) ==
    IF \E i \in DOMAIN cfg.types : cfg.types[i].import_path = tok /\ tok # ""
    THEN cfg.types[CHOOSE i \in DOMAIN cfg.types : cfg.types[i].import_path = tok].type_
    ELSE tok

\* the names of the types of the descriptor blocks, in file order: the
\* override, or the last segment of the path, that precedes the " : " of
\* each block
BlockNames(toks, cfg) ==
    [i \in DOMAIN TokensBefore(toks, " : ") |-> NamedType(TokensBefore(toks, " : ")[i], cfg)]

\* the names of the registration entries of the types, in file order
RegisteredNames(toks, cfg) ==
    SelectSeq(TokensAfter(toks, "app.register_foreign_lua_type::<"),
              LAMBDA n : n \notin Range(cfg.primitives))

\* the names of the per-type imports that open the file, in file order
UseNames(toks, cfg) ==
    [i \in DOMAIN TokensBefore(toks, ";") |-> NamedType(TokensBefore(toks, ";")[i], cfg)]

\* the start of each Methods block and the end of each, in file order
MethodsStarts(toks) ==
    SortedSet({i \in 1 .. Len(toks) - 2 :
                 toks[i] = "Methods" /\ toks[i + 1] = "\n" /\ toks[i + 2] = "("})
FieldsStarts(toks) ==
    SortedSet({i \in 1 .. Len(toks) - 3 :
                 /\ toks[i] = ")" /\ toks[i + 1] = "+ Fields"
                 /\ toks[i + 2] = "\n" /\ toks[i + 3] = "("})
BinOpsStarts(toks) ==
    SortedSet({i \in 1 .. Len(toks) - 1 : toks[i] = ")" /\ toks[i + 1] = "+ BinOps"})

\* the number of types whose Methods and Fields blocks are written
BlocksWritten(toks) == Len(BinOpsStarts(toks))

\* the lines of the Methods block of the k-th type
MethodsLines(toks, k) ==
    BlockLines(SubSeq(toks, MethodsStarts(toks)[k] + 3, FieldsStarts(toks)[k] - 1))

\* the lines of the Fields block of the k-th type
FieldsLines(toks, k) ==
    BlockLines(SubSeq(toks, FieldsStarts(toks)[k] + 4, BinOpsStarts(toks)[k] - 1))

IsReasonLine(line) == line # <<>> /\ line[1] = "// Exclusion reason: "
IsCommentLine(line) == line # <<>> /\ (line[1] = "// " \/ IsReasonLine(line))
IsDocLine(line) == line # <<>> /\ line[1] = "/// "
\* an uncommented line of a Methods block that is not a doc comment
IsSignatureLine(line) == line # <<>> /\ ~IsCommentLine(line) /\ ~IsDocLine(line)

\* the (impl, member) pairs the graph declares for the type of w
DeclaredMembers(w, graphs) ==
    LET idx == graphs[w.source].index
    IN UNION {{<<idx[i], idx[m]>> : m \in Range(idx[i].items)} : i \in Range(w.item.impls)}

\* the candidate methods of the type of w: the functions of its own
\* implementation and of the implementations of its accepted interfaces
CandidateMethods(w, graphs) ==
    {p[2] : p \in {q \in DeclaredMembers(w, graphs) :
                     /\ q[2].kind = "Function"
                     /\ \/ ~IsSome(q[1].trait_)
                        \/ \E i \in DOMAIN w.config.traits :
                              w.config.traits[i].name = q[1].trait_[1]}}

(***************************************************************************)
(* The claims.                                                             *)
(***************************************************************************)
\* the names of the records and tagged unions of the union of the graphs
GraphTypeNames ==
    UNION {{crates[k].index[id].name :
              id \in {i \in DOMAIN crates[k].index :
                        crates[k].index[i].kind \in {"Struct", "Enum"}}}
             : k \in DOMAIN crates}

\* the configured names that match no item of any graph
MissingNames == TypesKeys(config.types) \ GraphTypeNames

\* C1: when some configured name matches no item of the union of the graphs,
\* the run ends in one panic that lists exactly the missing names, with the
\* output file not created and nothing written; a name found in any one graph
\* is not listed.
C1_MissingTypesAbort ==
    (pc # "start" /\ MissingNames # {}) =>
        /\ ~created
        /\ out = <<>>
        /\ pc \in {"generate_macros", "collected", "panicked"}
        /\ pc = "panicked" =>
              panic = Some([msg |-> "Some types were not found in the given crates: ",
                            types |-> MissingNames])

\* two names are missing while a third is found in the last graph only
C1_Witness ==
    /\ pc = "panicked"
    /\ Cardinality(MissingNames) = 2
    /\ \E n \in TypesKeys(config.types) :
          /\ n \in GraphTypeNames
          /\ \A id \in DOMAIN crates[1].index :
                HasName(crates[1].index[id]) => crates[1].index[id].name # n

\* C2 (as claimed): a run that completes has exactly one descriptor block and
\* one registration entry per configured name.
C2_OneBlockPerName ==
    pc = "done" =>
        \A n \in TypesKeys(config.types) :
            /\ Cardinality({i \in DOMAIN BlockNames(out, config) : BlockNames(out, config)[i] = n}) = 1
            /\ Cardinality({i \in DOMAIN RegisteredNames(out, config) :
                              RegisteredNames(out, config)[i] = n}) = 1

\* whether a sequence of type names follows the order of the configuration
InConfigOrder(names, types) ==
    /\ Range(names) \subseteq TypesKeys(types)
    /\ \A i, j \in DOMAIN names :
          i < j => get_index_of(types, names[i]) <= get_index_of(types, names[j])

RECURSIVE FirstOccurrences(_)
\* a sequence without the repetitions of its elements
FirstOccurrences(names) ==
    IF names = <<>> THEN <<>>
    ELSE LET init == FirstOccurrences(SubSeq(names, 1, Len(names) - 1))
         IN IF names[Len(names)] \in Range(init) THEN init
            ELSE Append(init, names[Len(names)])

\* C3: the type list of the configuration is moved into the ordered map in its
\* declared order, and the per-type imports, the descriptor blocks and the
\* registration entries each name every configured type, in the order of the
\* configuration, whatever order the indexes were iterated in.
C3_ConfigOrder ==
    [][/\ pc = "start" =>
             [i \in DOMAIN config'.types |-> config'.types[i].type_]
                = FirstOccurrences([i \in DOMAIN config.types_ |-> config.types_[i].type_])
       /\ pc' = "imports" =>
             /\ InConfigOrder(UseNames(out', config'), config'.types)
             /\ Range(UseNames(out', config')) = TypesKeys(config'.types)
       /\ pc' = "done" =>
             /\ InConfigOrder(BlockNames(out', config'), config'.types)
             /\ Range(BlockNames(out', config')) = TypesKeys(config'.types)
             /\ InConfigOrder(RegisteredNames(out', config'), config'.types)
             /\ Range(RegisteredNames(out', config')) = TypesKeys(config'.types)]_vars

\* three types are configured in an order that is not the one a graph holds
\* them in, and the run is complete
C3_Witness ==
    /\ pc = "done"
    /\ [i \in DOMAIN config.types |-> config.types[i].type_] = <<"C", "A", "B">>
    /\ BlockNames(out, config) = <<"C", "A", "B">>

RECURSIVE MacroLoop(_, _, _, _, _)
\* the macro loop from the k-th item on: st is [items, out, panicked]
MacroLoop(st, k, graphs, cfg, flags) ==
    IF k > Len(st.items) \/ st.panicked THEN st
    ELSE MacroLoop(MacroStep(st.items, k, graphs, cfg, st.out, flags), k + 1, graphs, cfg, flags)

\* the file after the scaffolding, or as the panic left it
Scaffolding(st, cfg) ==
    IF st.panicked THEN st.out
    ELSE WriteProvider(st.items, cfg, WriteGlobals(st.items, cfg, st.out))

\* the file a run writes once the configured types are all matched, when the
\* indexes hand out their items in order o
RunOutput(o, graphs, cfg, flags) ==
    LET items == SortByConfig(CollectWrapped(graphs, cfg, o), cfg.types)
        head == WriteHead(items, cfg)
    IN IF head.panicked THEN head.out
       ELSE Scaffolding(
               MacroLoop([items |-> items,
                          out |-> ImportAllTraits([out |-> head.out, imported |-> {}],
                                                  items).out,
                          panicked |-> FALSE], 1, graphs, cfg, flags),
               cfg)

\* C4 (as claimed): the file of a complete run is the file of every run on
\* the same graphs, configuration and diagnostics setting, whatever order the
\* indexes are iterated in.
C4_SameOutputForEveryOrder ==
    pc = "done" =>
        \A o \in IterationOrders(crates, config) : RunOutput(o, crates, config, args) = out

\* whether a parameter of type tp fails classification or has no wrapper strategy
BadInput(tp, w, cfg) ==
    \/ ~TryIntoArgType(tp).ok
    \/ ~IsSome(with_config(w.wrapped_type, TryIntoArgType(tp).val, cfg))

HasBadInput(v, w, cfg) == \E i \in DOMAIN v.inputs : BadInput(v.inputs[i][2], w, cfg)

\* the uncommented signature lines of method name n, and the commented ones
SignaturesOf(lines, n) ==
    {i \in DOMAIN lines : IsSignatureLine(lines[i]) /\ lines[i][1] = n}
CommentedOf(lines, n) ==
    {i \in DOMAIN lines : /\ Len(lines[i]) >= 2
                          /\ lines[i][1] = "// " /\ lines[i][2] = n}

\* the commented trail of method v: a reason line, the commented lines of its
\* documentation, then its commented signature
HasTrail(lines, v) ==
    \E i \in DOMAIN lines :
        /\ IsReasonLine(lines[i])
        /\ i + Len(v.docs) + 1 \in CommentedOf(lines, v.name)
        /\ \A d \in 1 .. Len(v.docs) : lines[i + d] = <<"// ", "/// ", v.docs[d]>>

\* C5 (as claimed): in a complete run, a candidate method with a parameter
\* whose type fails classification or has no wrapper strategy has no
\* uncommented signature in the Methods block of its type; with diagnostics
\* disabled nothing of it is written, and with diagnostics enabled it is
\* written as a commented reason line followed by its commented signature.
C5_BadParameterMethodIsCommentOnly ==
    pc = "done" =>
        \A k \in DOMAIN wrapped_items :
            \A v \in CandidateMethods(wrapped_items[k], crates) :
                (/\ HasBadInput(v, wrapped_items[k], config)
                 /\ \A u \in CandidateMethods(wrapped_items[k], crates) :
                       u.name = v.name => u = v) =>
                    /\ SignaturesOf(MethodsLines(out, k), v.name) = {}
                    /\ ~args.print_errors => CommentedOf(MethodsLines(out, k), v.name) = {}
                    /\ args.print_errors => HasTrail(MethodsLines(out, k), v)

\* whether the declared return type of v is a reference
ReturnsReference(v) == IsSome(v.output) /\ v.output[1].k = "BorrowedRef"

\* C6: in every state of a run, under either diagnostics setting, no Methods
\* block written so far holds an uncommented signature under a name all of
\* whose candidate methods declare a reference return type.
C6_ReferenceReturnNeverIncluded ==
    \A k \in 1 .. BlocksWritten(out) :
        \A v \in CandidateMethods(wrapped_items[k], crates) :
            (\A u \in CandidateMethods(wrapped_items[k], crates) :
                u.name = v.name => ReturnsReference(u)) =>
                SignaturesOf(MethodsLines(out, k), v.name) = {}

\* a complete run with diagnostics enabled over a method that returns a
\* reference to a wrapped type and whose parameters are all supported, next
\* to a method that is included
C6_Witness ==
    /\ pc = "done" /\ args.print_errors
    /\ \E k \in DOMAIN wrapped_items :
          /\ \E v \in CandidateMethods(wrapped_items[k], crates) :
                /\ v.name = "value" /\ v.output = <<T_RefA>> /\ Len(v.inputs) = 2
                /\ ~HasBadInput(v, wrapped_items[k], config)
          /\ SignaturesOf(MethodsLines(out, k), "get") # {}
          /\ SignaturesOf(MethodsLines(out, k), "value") = {}

\* the fields the graph declares for the plain record of w
DeclaredFields(w, graphs) ==
    IF w.item.kind = "Struct" /\ w.item.plain
    THEN {f \in {graphs[w.source].index[id] : id \in Range(w.item.fields)} :
            f.kind = "StructField"}
    ELSE {}

IsIgnored(f) == \E i \in DOMAIN f.attrs : f.attrs[i] = "#[reflect(ignore)]"

\* C7 (as claimed): in a complete run, every field of a plain record that
\* does not carry the ignore-reflection annotation and whose type fails
\* classification or has no wrapper strategy has a line in the Fields block
\* of its type, with the type Raw(ReflectedValue).
C7_UnsupportedFieldIsPlaceholder ==
    pc = "done" =>
        \A k \in DOMAIN wrapped_items :
            \A f \in DeclaredFields(wrapped_items[k], crates) :
                (~IsIgnored(f) /\ BadInput(f.type, wrapped_items[k], config)) =>
                    \E i \in DOMAIN FieldsLines(out, k) :
                        FieldsLines(out, k)[i] = <<f.name, ": ", "Raw(ReflectedValue)", ",">>

\* a line of a Fields block that declares a field, and one that is a rename
\* annotation
IsFieldLine(line) == Len(line) = 4 /\ line[2] = ": " /\ line[4] = ","
IsRenameLine(line) == line # <<>> /\ line[1] = "#[rename(\"_"

\* whether the Methods block holds an included method of name n
Included(lines, n) == SignaturesOf(lines, n) # {}

\* whether the i-th line of a Fields block follows a rename annotation that
\* names the underscore-prefixed n
RenamedTo(lines, i, n) == i > 1 /\ lines[i - 1] = <<"#[rename(\"_", n, "\")]">>

\* C8 (as claimed): a field whose name is the name of an included method of
\* its type is written under the underscore-prefixed name, after a rename
\* annotation that references the plain name; any other field is written
\* under its own name, without annotation.
C8_CollidingFieldWrittenUnderscored ==
    \A k \in 1 .. BlocksWritten(out) :
        \A f \in DeclaredFields(wrapped_items[k], crates) :
            \A i \in DOMAIN FieldsLines(out, k) :
                (/\ IsFieldLine(FieldsLines(out, k)[i])
                 /\ FieldsLines(out, k)[i][1] \in {f.name, "_" \o f.name}) =>
                    IF Included(MethodsLines(out, k), f.name)
                    THEN /\ FieldsLines(out, k)[i][1] = "_" \o f.name
                         /\ i > 1
                         /\ FieldsLines(out, k)[i - 1] = <<"#[rename(\"", f.name, "\")]">>
                    ELSE /\ FieldsLines(out, k)[i][1] = f.name
                         /\ ~(i > 1 /\ IsRenameLine(FieldsLines(out, k)[i - 1]))

\* C8 (amended): every field line of a Fields block is written under the
\* name of a declared field; it directly follows a rename annotation, which
\* names that field with an underscore before it, exactly when the Methods
\* block of the type holds an included method of the field's name; a rename
\* annotation appears nowhere else, and included methods keep their names.
C8_CollidingFieldRenameAnnotated ==
    \A k \in 1 .. BlocksWritten(out) :
        \A fields \in {FieldsLines(out, k)}, methods \in {MethodsLines(out, k)} :
            \A i \in DOMAIN fields :
                /\ IsFieldLine(fields[i]) =>
                      /\ \E f \in DeclaredFields(wrapped_items[k], crates) :
                            f.name = fields[i][1]
                      /\ Included(methods, fields[i][1])
                            <=> RenamedTo(fields, i, fields[i][1])
                      /\ ~Included(methods, fields[i][1])
                            => ~(i > 1 /\ IsRenameLine(fields[i - 1]))
                /\ IsRenameLine(fields[i]) =>
                      /\ i + 1 \in DOMAIN fields
                      /\ IsFieldLine(fields[i + 1])
                      /\ RenamedTo(fields, i + 1, fields[i + 1][1])

\* a complete run over a record with a field and an included method both
\* named value, and a second field that collides with nothing
C8_Witness ==
    /\ pc = "done"
    /\ \E k \in DOMAIN wrapped_items :
          /\ Included(MethodsLines(out, k), "value")
          /\ \E i, j \in DOMAIN FieldsLines(out, k) :
                /\ FieldsLines(out, k)[i][1] = "value"
                /\ IsFieldLine(FieldsLines(out, k)[i])
                /\ RenamedTo(FieldsLines(out, k), i, "value")
                /\ IsFieldLine(FieldsLines(out, k)[j])
                /\ FieldsLines(out, k)[j][1] # "value"
                /\ ~RenamedTo(FieldsLines(out, k), j, FieldsLines(out, k)[j][1])

\* whether the Methods block holds an included method without receiver: an
\* uncommented signature without the ":" that follows a receiver
IncludesGlobalMethod(lines) ==
    \E i \in DOMAIN lines : IsSignatureLine(lines[i]) /\ ":" \notin Range(lines[i])

\* whether the global-instance registry holds an entry for the type of w
HasInstance(toks, w) ==
    \E i \in 1 .. Len(toks) - 5 :
        /\ toks[i] = "instances.add_instance("
        /\ toks[i + 2] = w.wrapped_type
        /\ toks[i + 5] = w.wrapper_name

\* whether the k-th item is the only one of its name
OnlyOfItsName(items, k) ==
    \A j \in DOMAIN items : items[j].wrapped_type = items[k].wrapped_type => j = k

\* C9 (as claimed): in a complete run, the has_global_methods flag of a type
\* (matched by one item) is true exactly when its Methods block holds an
\* included method without receiver, and the global-instance registry holds
\* an entry for the type exactly then.
C9_GlobalFlagIffIncludedGlobalMethod ==
    pc = "done" =>
        \A k \in DOMAIN wrapped_items :
            OnlyOfItsName(wrapped_items, k) =>
                /\ wrapped_items[k].has_global_methods
                      <=> IncludesGlobalMethod(MethodsLines(out, k))
                /\ HasInstance(out, wrapped_items[k])
                      <=> IncludesGlobalMethod(MethodsLines(out, k))

\* whether no exclusion reason applies to the candidate method v
NoReason(v, w, cfg) ==
    /\ ~HasBadInput(v, w, cfg)
    /\ IsSome(v.output) => /\ ~BadInput(v.output[1], w, cfg)
                           /\ ~ReturnsReference(v)
    /\ v.generics = 0

\* a type as it is rendered in a signature
Rendered(tp, w, cfg) ==
    ArgStr(TryIntoArgType(tp).val, with_config(w.wrapped_type, TryIntoArgType(tp).val, cfg)[1])

\* the complete signature of a method without exclusion reason: the name,
\* every parameter, the return type and the trailing separator
CompleteSignature(v, w, cfg) ==
    ((<<v.name, "(">>
      \o Concat([i \in DOMAIN v.inputs |->
                   <<Rendered(v.inputs[i][2], w, cfg)>>
                   \o (IF v.inputs[i][1] = "self" THEN <<":">>
                       ELSE IF i # Len(v.inputs) THEN <<",">> ELSE <<>>)]))
     \o <<")">>)
    \o (IF IsSome(v.output) THEN <<" -> ", Rendered(v.output[1], w, cfg)>> ELSE <<>>)
    \o <<",">>

\* C10: in every state of a run, every uncommented line of a Methods block
\* written so far is either a documentation line that leads to a signature
\* or the complete signature of a candidate method to which no exclusion
\* reason applies.
C10_InclusionAllOrNothing ==
    \A k \in 1 .. BlocksWritten(out) :
        \A methods \in {MethodsLines(out, k)} :
            \A i \in DOMAIN methods :
                /\ IsSignatureLine(methods[i]) =>
                      \E v \in CandidateMethods(wrapped_items[k], crates) :
                          /\ NoReason(v, wrapped_items[k], config)
                          /\ methods[i] = CompleteSignature(v, wrapped_items[k], config)
                /\ IsDocLine(methods[i]) =>
                      /\ i + 1 \in DOMAIN methods
                      /\ \/ IsDocLine(methods[i + 1])
                         \/ IsSignatureLine(methods[i + 1])

\* a complete run with diagnostics enabled over a type with an included
\* method that takes the receiver and has a return type, and an excluded
\* method whose trail is written
C10_Witness ==
    /\ pc = "done" /\ args.print_errors
    /\ \E k \in DOMAIN wrapped_items :
          /\ \E i \in SignaturesOf(MethodsLines(out, k), "get") :
                MethodsLines(out, k)[i]
                    = <<"get", "(", "&self", ":", ")", " -> ", "Raw(f32)", ",">>
          /\ \E v \in CandidateMethods(wrapped_items[k], crates) :
                /\ ~NoReason(v, wrapped_items[k], config)
                /\ HasTrail(MethodsLines(out, k), v)

\* the members of the implementation blocks of the type of w, in the order
\* the blocks are declared on the type and the members in each block
DeclaredMemberSeq(w, graphs) ==
    Concat([j \in DOMAIN w.item.impls |->
              [k \in DOMAIN graphs[w.source].index[w.item.impls[j]].items |->
                 <<graphs[w.source].index[w.item.impls[j]],
                   graphs[w.source].index[graphs[w.source].index[w.item.impls[j]].items[k]]>>]])

\* the signatures of the candidate methods without exclusion reason, in that order
DeclaredSignatures(w, graphs, cfg) ==
    LET kept == SelectSeq(DeclaredMemberSeq(w, graphs),
                          LAMBDA p : /\ p[2] \in CandidateMethods(w, graphs)
                                     /\ NoReason(p[2], w, cfg))
    IN [i \in DOMAIN kept |-> CompleteSignature(kept[i][2], w, cfg)]

\* the uncommented signatures of a Methods block, in file order
SignatureLines(lines) == SelectSeq(lines, IsSignatureLine)

\* C11 (as claimed): in a complete run, the signatures of the Methods block
\* of a type are those of its included methods in the order the
\* implementation blocks are declared on the type and, within a block, in the
\* order its members are declared.
C11_MethodsInDeclarationOrder ==
    pc = "done" =>
        \A k \in DOMAIN wrapped_items :
            SignatureLines(MethodsLines(out, k))
                = DeclaredSignatures(wrapped_items[k], crates, config)

\* the start of each UnaryOps block, in file order
UnaryOpsStarts(toks) ==
    SortedSet({i \in 1 .. Len(toks) - 1 : toks[i] = ")" /\ toks[i + 1] = "+ UnaryOps"})

\* the lines of the BinOps block of the k-th type, once it is closed
BinOpsLines(toks, k) ==
    BlockLines(SubSeq(toks, BinOpsStarts(toks)[k] + 4, UnaryOpsStarts(toks)[k] - 1))

\* the lines of the UnaryOps block of the k-th type
UnaryOpsLines(toks, k) ==
    BlockLines(SubSeq(toks, UnaryOpsStarts(toks)[k] + 4,
                      (CHOOSE j \in UnaryOpsStarts(toks)[k] + 4 .. Len(toks) :
                          /\ toks[j] = ")"
                          /\ \A l \in UnaryOpsStarts(toks)[k] + 4 .. j - 1 : toks[l] # ")") - 1))

\* C12 (as claimed): a run never aborts inside the descriptor block of a
\* type, whatever fails inside an implementation of a binary operator, and
\* no BinOps block holds diagnostic text.
C12_OperatorFailureNeverAborts ==
    /\ ~(pc = "panicked" /\ cursor \in DOMAIN wrapped_items)
    /\ \A k \in 1 .. Len(UnaryOpsStarts(out)) :
          \A i \in DOMAIN BinOpsLines(out, k) : ~IsCommentLine(BinOpsLines(out, k)[i])

\* the number of exclusion reasons that apply to the candidate method v: one
\* for each parameter that fails classification or has no wrapper strategy,
\* one for the return type, one for generic parameters
ReasonCount(v, w, cfg) ==
    Cardinality({i \in DOMAIN v.inputs : BadInput(v.inputs[i][2], w, cfg)})
    + (IF IsSome(v.output) /\ (ReturnsReference(v) \/ BadInput(v.output[1], w, cfg))
       THEN 1 ELSE 0)
    + (IF v.generics # 0 THEN 1 ELSE 0)

\* the commented trail of method v whose reason line joins n reasons
HasTrailOf(lines, v, n) ==
    \E i \in DOMAIN lines :
        /\ IsReasonLine(lines[i])
        /\ Len(lines[i]) = 2 * n
        /\ i + Len(v.docs) + 1 \in CommentedOf(lines, v.name)
        /\ \A d \in 1 .. Len(v.docs) : lines[i + d] = <<"// ", "/// ", v.docs[d]>>

\* C13 (as claimed): in a complete run, every candidate method to which some
\* exclusion reason applies has no uncommented signature; with diagnostics
\* enabled it is written as commented text whose reason line joins every
\* reason that applies to it, and with diagnostics disabled nothing of it is
\* written.
C13_AllReasonsAccumulated ==
    pc = "done" =>
        \A k \in DOMAIN wrapped_items :
            \A v \in CandidateMethods(wrapped_items[k], crates) :
                (/\ ~NoReason(v, wrapped_items[k], config)
                 /\ \A u \in CandidateMethods(wrapped_items[k], crates) :
                       u.name = v.name => u = v) =>
                    /\ SignaturesOf(MethodsLines(out, k), v.name) = {}
                    /\ ~args.print_errors => CommentedOf(MethodsLines(out, k), v.name) = {}
                    /\ args.print_errors =>
                          HasTrailOf(MethodsLines(out, k), v,
                                     ReasonCount(v, wrapped_items[k], config))

\* the names of the candidate methods of the type of w
CandidateNames(w, graphs) == {v.name : v \in CandidateMethods(w, graphs)}

\* the functions of the type's own implementation blocks
OwnMethods(w, graphs) ==
    {p[2] : p \in {q \in DeclaredMembers(w, graphs) :
                     q[2].kind = "Function" /\ ~IsSome(q[1].trait_)}}

\* whether the method v takes no receiver
IsGlobalMethod(v) == \A i \in DOMAIN v.inputs : v.inputs[i][1] # "self"

\* C14: in every state of a run and under either diagnostics setting, for
\* every type whose blocks are written: a member name declared only in
\* implementations of interfaces that are not accepted appears in no line of
\* the Methods block, commented or not, and renames no field; the
\* has_global_methods flag is set only if a method of the type's own
\* implementation or of an accepted interface takes no receiver; and every
\* method of the type's own implementation to which no exclusion reason
\* applies is written with its complete signature.
C14_UnacceptedInterfaceLeavesNoTrace ==
    \A k \in 1 .. BlocksWritten(out) :
        \A fields \in {FieldsLines(out, k)}, methods \in {MethodsLines(out, k)} :
            /\ \A p \in DeclaredMembers(wrapped_items[k], crates) :
                  p[2].name \notin CandidateNames(wrapped_items[k], crates) =>
                      /\ SignaturesOf(methods, p[2].name) = {}
                      /\ CommentedOf(methods, p[2].name) = {}
                      /\ \A i \in DOMAIN fields : ~RenamedTo(fields, i, p[2].name)
            /\ (pc = "done" /\ wrapped_items[k].has_global_methods) =>
                  \E v \in CandidateMethods(wrapped_items[k], crates) : IsGlobalMethod(v)
            /\ \A v \in OwnMethods(wrapped_items[k], crates) :
                  NoReason(v, wrapped_items[k], config) =>
                      \E i \in DOMAIN methods :
                          methods[i] = CompleteSignature(v, wrapped_items[k], config)

\* a complete run with diagnostics enabled over a type whose second
\* implementation block is of an interface that is not accepted and declares
\* c(x: Foo) without receiver, next to the field c and the own method a
C14_Witness ==
    /\ pc = "done" /\ args.print_errors
    /\ \E k \in DOMAIN wrapped_items :
          /\ \E p \in DeclaredMembers(wrapped_items[k], crates) :
                /\ p[2].name = "c" /\ p[2].kind = "Function"
                /\ IsSome(p[1].trait_) /\ wrapped_items[k].config.traits = <<>>
                /\ IsGlobalMethod(p[2])
                /\ HasBadInput(p[2], wrapped_items[k], config)
          /\ "c" \notin CandidateNames(wrapped_items[k], crates)
          /\ \E i \in DOMAIN FieldsLines(out, k) : FieldsLines(out, k)[i][1] = "c"
          /\ SignaturesOf(MethodsLines(out, k), "a") # {}
          /\ ~wrapped_items[k].has_global_methods

\* the lines of a Fields block that declare the field named n
FieldLinesOf(lines, n) == {i \in DOMAIN lines : IsFieldLine(lines[i]) /\ lines[i][1] = n}

\* whether the type tp classifies and is a primitive or a wrapped type
IsStructural(tp, w, cfg) ==
    /\ TryIntoArgType(tp).ok
    /\ with_config(w.wrapped_type, TryIntoArgType(tp).val, cfg) \in {Some("Raw"), Some("Wrapped")}

\* C15 (as claimed): a field that carries the ignore-reflection annotation
\* has no line in the Fields block of its type, whatever its type.
C15_IgnoredFieldNeverWritten ==
    \A k \in 1 .. BlocksWritten(out) :
        \A f \in DeclaredFields(wrapped_items[k], crates) :
            IsIgnored(f) => FieldLinesOf(FieldsLines(out, k), f.name) = {}

\* C15 (amended): a field that carries the ignore-reflection annotation has
\* no line in the Fields block of its type when its type is the type itself,
\* fails classification or has no wrapper strategy (it is never written with
\* the placeholder Raw(ReflectedValue)); when its type is a primitive or a
\* wrapped type it is written, with that type, as if it carried no annotation.
C15_IgnoredFieldWrittenOnlyIfStructural ==
    \A k \in 1 .. BlocksWritten(out) :
        \A f \in DeclaredFields(wrapped_items[k], crates) :
            IsIgnored(f) =>
                IF IsStructural(f.type, wrapped_items[k], config)
                THEN \E i \in FieldLinesOf(FieldsLines(out, k), f.name) :
                        FieldsLines(out, k)[i][3] = Rendered(f.type, wrapped_items[k], config)
                ELSE FieldLinesOf(FieldsLines(out, k), f.name) = {}

\* a complete run over a record with an annotated field of a primitive type,
\* which is written, and an annotated field of an unsupported type, which is not
C15_Witness ==
    /\ pc = "done"
    /\ \E k \in DOMAIN wrapped_items :
          \E f, g \in DeclaredFields(wrapped_items[k], crates) :
              /\ IsIgnored(f) /\ f.type = T_f32
              /\ FieldLinesOf(FieldsLines(out, k), f.name) # {}
              /\ IsIgnored(g) /\ g.type = T_Foo
              /\ FieldLinesOf(FieldsLines(out, k), g.name) = {}

\* the members named like a binary operator that the type of w collects,
\* with their implementation
OperatorNamed(w, graphs) ==
    {p \in DeclaredMembers(w, graphs) :
        \E o \in DOMAIN BINARY_OPS : BINARY_OPS[o][1] = p[2].name}

\* whether the type tp classifies and the name it rests on, seen through
\* references and with Self standing for the type of w, is the configured
\* type of w or a configured primitive (wrapper.rs 384-392)
IsTargetOrPrimitive(tp, w, cfg) ==
    /\ TryIntoArgType(tp).ok
    /\ \E base \in {IF IsSome(base_ident(TryIntoArgType(tp).val))
                     THEN base_ident(TryIntoArgType(tp).val)[1]
                     ELSE w.wrapped_type} :
          \/ base = w.wrapped_type /\ contains_key(cfg.types, base)
          \/ base \in Range(cfg.primitives)

\* whether tp is, as written, the type of w itself (by its name or as Self),
\* configured, or a configured primitive: no reference to either
IsTargetItselfOrPrimitive(tp, w, cfg) ==
    \/ tp \in {TResolvedPath(w.wrapped_type), T_Self}
          /\ contains_key(cfg.types, w.wrapped_type)
    \/ tp.k = "Primitive" /\ tp.name \in Range(cfg.primitives)

\* the members named like a binary operator, functions or not, of the
\* implementations that the filter lets through
OperatorMembers(w, graphs, cfg) ==
    {p \in OperatorNamed(w, graphs) : IsTargetOrPrimitive(p[1].for_, w, cfg)}

\* the methods among them
OperatorMethods(w, graphs, cfg) ==
    {p \in OperatorMembers(w, graphs, cfg) : p[2].kind = "Function"}

\* C16 (as claimed): in every state of a run, the BinOps block of a type,
\* once written, holds at most one line for each operator method of an
\* implementation for the type itself or for a configured primitive, and a
\* run aborts inside a BinOps block only over a member of such an
\* implementation: an implementation for any other type, a reference to the
\* type or to a primitive included, contributes nothing.
C16_OperatorOnlyForTargetItself ==
    /\ \A k \in 1 .. Len(UnaryOpsStarts(out)) :
          Len(BinOpsLines(out, k))
              <= Cardinality({p \in OperatorNamed(wrapped_items[k], crates) :
                                /\ p[2].kind = "Function"
                                /\ IsTargetItselfOrPrimitive(p[1].for_, wrapped_items[k],
                                                             config)})
    /\ (pc = "panicked" /\ cursor \in DOMAIN wrapped_items) =>
          \E p \in OperatorNamed(wrapped_items[cursor], crates) :
              IsTargetItselfOrPrimitive(p[1].for_, wrapped_items[cursor], config)

\* C16: in every state of a run, the BinOps block of a type, once written,
\* holds at most one line for each operator method of an implementation for
\* a type that, seen through references and with Self standing for the
\* type, is the configured type itself or a configured primitive: an
\* operator method of an implementation for any other type adds no line,
\* and it is not examined either, so a run aborts inside a BinOps block
\* only over a member named like an operator of an implementation that the
\* filter lets through.
C16_OperatorOnlyForTargetOrPrimitive ==
    /\ \A k \in 1 .. Len(UnaryOpsStarts(out)) :
          Len(BinOpsLines(out, k))
              <= Cardinality(OperatorMethods(wrapped_items[k], crates, config))
    /\ (pc = "panicked" /\ cursor \in DOMAIN wrapped_items) =>
          OperatorMembers(wrapped_items[cursor], crates, config) # {}

\* a complete run over a type with an implementation of Add for a reference
\* to the type, whose operand and Output are the type itself: its line is
\* written
C16_Witness ==
    /\ pc = "done"
    /\ crates = <<OperatorCrate(T_RefA, T_A, <<AssocTy("Output", Some(T_A))>>, "none")>>
    /\ BinOpsLines(out, 1) = <<<<"self Add Wrapped(A)", " -> ", "Wrapped(A)", ",">>>>

\* the display token of the binary operator whose method is named n
DisplayToken(n) == BINARY_OPS[CHOOSE o \in DOMAIN BINARY_OPS : BINARY_OPS[o][1] = n][2]

\* the declared default types of the associated items named Output of an
\* implementation
OutputDefaults(impl_, w, graphs) ==
    {graphs[w.source].index[id].default :
        id \in {m \in Range(impl_.items) :
                  /\ graphs[w.source].index[m].kind = "AssocType"
                  /\ graphs[w.source].index[m].name = "Output"}}

\* whether the type tp classifies and has a wrapper strategy
IsSupported(tp, w, cfg) == ~BadInput(tp, w, cfg)

\* the line of an operator method p = <<implementation, method>> with the
\* Output type tp
OperatorLine(p, tp, w, cfg) ==
    <<JoinStr([i \in DOMAIN p[2].inputs |-> Rendered(p[2].inputs[i][2], w, cfg)],
              " " \o DisplayToken(p[2].name) \o " "),
      " -> ", Rendered(tp, w, cfg), ",">>

\* the accepted operator methods whose parameters all classify and wrap and
\* whose Output exists and classifies
CompleteOperators(w, graphs, cfg) ==
    {p \in OperatorMethods(w, graphs, cfg) :
        /\ \A i \in DOMAIN p[2].inputs : IsSupported(p[2].inputs[i][2], w, cfg)
        /\ \E d \in OutputDefaults(p[1], w, graphs) :
              IsSome(d) /\ IsSupported(d[1], w, cfg)}

\* C17 (as claimed): in a complete run, every accepted implementation of a
\* binary operator whose parameters all classify and wrap and whose Output
\* exists and classifies, Self included, has its line in the BinOps block:
\* the operands joined by the display token, then ->, then the return type;
\* and the block holds one line for each of them.
C17_OperatorLineForEveryCompleteImpl ==
    pc = "done" =>
        \A k \in DOMAIN wrapped_items :
            /\ \A p \in CompleteOperators(wrapped_items[k], crates, config) :
                  \E d \in OutputDefaults(p[1], wrapped_items[k], crates) :
                      /\ IsSome(d)
                      /\ \E i \in DOMAIN BinOpsLines(out, k) :
                            BinOpsLines(out, k)[i]
                                = OperatorLine(p, d[1], wrapped_items[k], config)
            /\ Len(BinOpsLines(out, k))
                  = Cardinality(CompleteOperators(wrapped_items[k], crates, config))

\* the members named neg that the type of w collects, with their implementation
NegMembers(w, graphs) == {p \in DeclaredMembers(w, graphs) : p[2].name = "neg"}

\* C18: in every state of a run, the UnaryOps block of a type, once written,
\* holds the line `Neg self -> self` once for each member named neg that
\* the type collects, whatever that member's signature, the type it is
\* implemented for and the accepted interfaces, and nothing else; it is
\* empty when the type collects no such member.
C18_NegWrittenUnconditionally ==
    \A k \in 1 .. Len(UnaryOpsStarts(out)) :
        /\ Len(UnaryOpsLines(out, k)) = Cardinality(NegMembers(wrapped_items[k], crates))
        /\ \A i \in DOMAIN UnaryOpsLines(out, k) :
              UnaryOpsLines(out, k)[i] = <<"Neg", " self -> self">>

\* a complete run over a type that accepts no interface and collects a
\* generic neg(x: tuple) without return type from an implementation for Foo
C18_Witness ==
    /\ pc = "done"
    /\ \E k \in DOMAIN wrapped_items :
          /\ wrapped_items[k].config.traits = <<>>
          /\ \E p \in NegMembers(wrapped_items[k], crates) :
                /\ p[1].for_ = T_Foo /\ p[2].generics # 0
                /\ p[2].output = None /\ IsGlobalMethod(p[2])
          /\ UnaryOpsLines(out, k) = <<<<"Neg", " self -> self">>>>

\* the start of each descriptor block, in file order
BlockStarts(toks) == SortedSet({i \in DOMAIN toks : toks[i] = "impl_script_newtype!"})

\* the feature-gate header of a list of required features
GuardOf(features) ==
    IF Len(features) = 1 THEN <<"#[cfg(feature=\"", features[1], "\")]", "\n">>
    ELSE IF Len(features) > 1
    THEN <<"#[cfg(all(", "\n">>
         \o Concat([i \in DOMAIN features |-> <<"feature=\"", features[i], "\",", "\n">>])
         \o <<"))]", "\n">>
    ELSE <<>>

\* the tokens toks[from .. from + Len(part) - 1] are part
HasAt(toks, from, part) ==
    /\ from >= 1
    /\ from + Len(part) - 1 <= Len(toks)
    /\ SubSeq(toks, from, from + Len(part) - 1) = part

\* C19: in every state of a run, each descriptor block written so far is
\* directly preceded by the feature-gate header of the required features:
\* the simple guard for one feature, the conjunctive guard naming every
\* feature for two or more, and no guard for none.
C19_BlockPrecededByFeatureGate ==
    \A k \in DOMAIN BlockStarts(out) :
       LET at == BlockStarts(out)[k]
       IN IF config.required_features = <<>>
          THEN at <= 2 \/ out[at - 2] \notin {"\")]", "))]"}
          ELSE HasAt(out, at - Len(GuardOf(config.required_features)),
                     GuardOf(config.required_features))

\* the import line of each type that opens the file: the tokens between
\* each "use " and the next ";" (or the end of a file that stops before it),
\* in file order
UseStarts(toks) == SortedSet({i \in DOMAIN toks : toks[i] = "use "})
UseLine(toks, k) ==
    LET from == UseStarts(toks)[k]
        to == CHOOSE j \in from .. Len(toks) + 1 :
                 /\ j <= Len(toks) => toks[j] = ";"
                 /\ \A l \in from .. j - 1 : toks[l] # ";"
    IN SubSeq(toks, from + 1, to - 1)

\* the later segments of the path of the type of w in its graph
LaterSegments(w, graphs) ==
    Concat([i \in DOMAIN Tail(graphs[w.source].paths[w.item.id]) |->
              <<"::", Tail(graphs[w.source].paths[w.item.id])[i]>>])

\* the import of w with the alias replacing the first drop characters of a
\* module name that begins with bevy and is longer than drop characters
AliasedImport(w, graphs, drop) ==
    IF w.config.import_path # "" THEN <<w.config.import_path>>
    ELSE (IF Len(w.config.source) > drop
             /\ SubSeq(w.config.source, 1, 4) = <<"b", "e", "v", "y">>
          THEN <<"bevy::">> \o SubSeq(w.config.source, drop + 1, Len(w.config.source))
          ELSE w.config.source)
         \o LaterSegments(w, graphs)

\* C20 (as claimed): once the file is open, the import of each type is
\* written whole: the override when one is configured, and otherwise the
\* module name, rewritten to bevy:: followed by what follows the four
\* characters bevy when it begins with bevy and is longer, followed by the
\* later path segments unaltered.
C20_AliasAfterFourCharacterPrefix ==
    created =>
       \A k \in DOMAIN wrapped_items :
          /\ k <= Len(UseStarts(out))
          /\ UseStarts(out)[k] + Len(UseLine(out, k)) + 1 <= Len(out)
          /\ UseLine(out, k) = AliasedImport(wrapped_items[k], crates, Len(<<"b", "e", "v", "y">>))

\* the accepted interfaces of the configured types, in the order of the
\* configuration and of each type's list
AcceptedInOrder(cfg) ==
    Concat([i \in DOMAIN cfg.types |-> cfg.types[i].traits])

\* the first use of each distinct interface name of a sequence of accepted
\* interfaces, in order
FirstUses(traits) ==
    SelectSeq([i \in DOMAIN traits |-> [at |-> i, t |-> traits[i]]],
              LAMBDA e : \A j \in 1 .. e.at - 1 : traits[j].name # e.t.name)

\* the import lines that follow those of the types, in file order
InterfaceImports(toks, items) ==
    [k \in 1 .. Len(UseStarts(toks)) - Len(items) |-> UseLine(toks, Len(items) + k)]

\* the imports of the interfaces have been written
ImportsWritten(pc_) == created /\ pc_ # "imports" /\ cursor >= 1

\* C21: in every state of a run after the imports of the interfaces are
\* written, the file holds, after the imports of the types, exactly one
\* import per distinct accepted interface of the matched types, in the order
\* of first use (types in configuration order, each type's interfaces in
\* their configured order), with the import path of that first use; before
\* that step it holds none.
C21_InterfaceImportedOnceAtFirstUse ==
    created =>
       InterfaceImports(out, wrapped_items)
          = IF ImportsWritten(pc)
            THEN [k \in DOMAIN FirstUses(AcceptedInOrder(config)) |->
                    <<FirstUses(AcceptedInOrder(config))[k].t.import_path>>]
            ELSE <<>>

\* a complete run over B then A: B accepts Neg and Add, A accepts Add, and
\* the imports are those of Neg and Add, once each
C21_Witness ==
    /\ pc = "done"
    /\ [i \in DOMAIN wrapped_items |-> wrapped_items[i].wrapped_type] = <<"B", "A">>
    /\ Len(AcceptedInOrder(config)) = 3
    /\ InterfaceImports(out, wrapped_items) = <<<<"std::ops::Neg">>, <<"std::ops::Add">>>>

\* the body of the descriptor block of w when it is written on its own, to
\* an empty file
BodyAlone(w, graphs, cfg, flags) ==
    write_derive_flags_body(w, graphs[w.source].index, cfg, <<>>, flags).out

\* C22: in every state of a run, the Fields block of each type written so far
\* is the Fields block the type gets when it is written on its own, whatever
\* types were written before it, and each of its rename annotations names a
\* method Included in the Methods block of the same type.
C22_UsedNamesDoNotLeak ==
    \A k \in 1 .. BlocksWritten(out) :
        \A fields \in {FieldsLines(out, k)}, methods \in {MethodsLines(out, k)} :
            /\ fields = FieldsLines(BodyAlone(wrapped_items[k], crates, config, args), 1)
            /\ \A i \in DOMAIN fields :
                  IsRenameLine(fields[i]) => Included(methods, fields[i][2])

\* a complete run that includes a method value for the first type and
\* none for the second, whose field value is written without annotation
C22_Witness ==
    /\ pc = "done"
    /\ Len(wrapped_items) = 2
    /\ Included(MethodsLines(out, 1), "value")
    /\ ~Included(MethodsLines(out, 2), "value")
    /\ FieldsLines(out, 2) = <<<<"value", ": ", "Raw(f32)", ",">>>>

====
